---- MODULE Spec2Model ----
(***************************************************************************)
(* Model of the CURSO VIRADS analysis screen (AnalysisScreen and the       *)
(* statistical utilities it is built on).                                  *)
(*                                                                         *)
(* Number representation                                                   *)
(*   - ratios of counts (sensitivity, prevalence, ROC points, AUC) are     *)
(*     exact rationals <<n, d>> in lowest terms with d > 0;                *)
(*   - reading times, t-tests and the normal-CDF approximation with its    *)
(*     p-values are binary64 values computed as the JavaScript number      *)
(*     type computes them.                                                 *)
(***************************************************************************)
EXTENDS Integers, Sequences, FiniteSets, TLC

(* ------------------------------ bounds --------------------------------- *)

\* largest case number in the inputs of the statistics specification
MaxCaseNumber == 3

\* largest case number in the inputs of the analysis-screen specification
MaxCaseNumberA == 2

\* number of cases in the time analysis (SpecTiming)
MaxTimedCases == 3

\* seconds a reader's timer runs on one case
MaxSeconds == 2

\* uploads waiting for their timeout at one time
MaxPendingUploads == 2

\* calls of onUpdate followed after one change of a survey answer
MaxOnUpdateCalls == 2

\* selects of the time analysis changed in one visit of the screen
MaxChangedSelects == 1

(* ----------------------- program constants ----------------------------- *)

CVNMI_STAGES == {"Ta", "Tis", "T1"}
CVMI_STAGES == {"T2", "T3", "T4"}

\* the final VI-RADS score is entered on a 1..5 scale; 0 is the sentinel
MaxScore == 5

\* the answers of the survey scale are 1..5; 0 is not answered
MaxLikert == 5

\* values of the cutoff slider (min 2, max 5, step 1)
Cutoffs == 2..5

\* cutoffs of the fixed ROC grid in calculateAUC
RocCutoffs == <<2, 3, 4, 5>>

\* initial values of the AnalysisScreen state
InitialCutoff == 4
InitialComparisonPercentage == 50
InitialTimeAnalysisCasePercentage == 100

(* ------------------------------ rationals ------------------------------ *)

Abs(x) == IF x < 0 THEN 0 - x ELSE x

RECURSIVE GCD(_, _)
GCD(a, b) == IF b = 0 THEN a ELSE GCD(b, a % b)

\* the rational n/d (d # 0) in lowest terms with a positive denominator
Rat(n, d) ==
  LET g == GCD(Abs(n), Abs(d))
      s == IF d < 0 THEN 0 - 1 ELSE 1
  IN  <<(s * n) \div g, (s * d) \div g>>

RZero == <<0, 1>>
ROne == <<1, 1>>
RHalf == <<1, 2>>

RAdd(a, b) == Rat(a[1] * b[2] + b[1] * a[2], a[2] * b[2])
RSub(a, b) == Rat(a[1] * b[2] - b[1] * a[2], a[2] * b[2])
RMul(a, b) == Rat(a[1] * b[1], a[2] * b[2])
RDiv(a, b) == Rat(a[1] * b[2], a[2] * b[1])
RLe(a, b) == a[1] * b[2] <= b[1] * a[2]
RLt(a, b) == a[1] * b[2] < b[1] * a[2]
RIsZero(a) == a[1] = 0
RIsPos(a) == a[1] > 0
RInUnit(a) == RLe(RZero, a) /\ RLe(a, ROne)

(* ------------------- binary64 numbers (IEEE 754) ------------------------ *)

\* The timing statistics and the p-values are sensitive to the rounding of
\* the JavaScript number type, so they are computed on binary64 values:
\* every operation is the exact result rounded to 53 significant bits, ties
\* to even.  A significand is a natural number kept as little-endian digits
\* in base LIMB (the empty sequence is 0), so that no step leaves the
\* 32-bit range.

LIMB == 32768
LIMB_BITS == 15
SIGNIFICAND_BITS == 53

RECURSIVE Pow2(_)
Pow2(k) == IF k = 0 THEN 1 ELSE 2 * Pow2(k - 1)

RECURSIVE BNNorm(_)
BNNorm(a) ==
  IF a = <<>> THEN <<>>
  ELSE IF a[Len(a)] = 0 THEN BNNorm(SubSeq(a, 1, Len(a) - 1)) ELSE a

\* a natural number below 2^31 as digits
BNFromInt(n) ==
  BNNorm(<<n % LIMB, (n \div LIMB) % LIMB, n \div (LIMB * LIMB)>>)

BNDigit(a, i) == IF i >= 1 /\ i <= Len(a) THEN a[i] ELSE 0

RECURSIVE BNCmpFrom(_, _, _)
BNCmpFrom(a, b, i) ==
  IF i = 0 THEN 0
  ELSE IF a[i] < b[i] THEN 0 - 1
  ELSE IF a[i] > b[i] THEN 1
  ELSE BNCmpFrom(a, b, i - 1)

\* -1, 0 or 1 as a < b, a = b or a > b
BNCmp(a, b) ==
  IF Len(a) < Len(b) THEN 0 - 1
  ELSE IF Len(a) > Len(b) THEN 1
  ELSE BNCmpFrom(a, b, Len(a))

RECURSIVE BNAddFrom(_, _, _, _)
BNAddFrom(a, b, i, carry) ==
  IF i > Len(a) /\ i > Len(b)
  THEN IF carry = 0 THEN <<>> ELSE <<carry>>
  ELSE LET v == BNDigit(a, i) + BNDigit(b, i) + carry
       IN  IF v >= LIMB THEN <<v - LIMB>> \o BNAddFrom(a, b, i + 1, 1)
           ELSE <<v>> \o BNAddFrom(a, b, i + 1, 0)

BNAdd(a, b) == BNAddFrom(a, b, 1, 0)

RECURSIVE BNSubFrom(_, _, _, _)
BNSubFrom(a, b, i, borrow) ==
  IF i > Len(a) THEN <<>>
  ELSE LET v == a[i] - BNDigit(b, i) - borrow
       IN  IF v < 0 THEN <<v + LIMB>> \o BNSubFrom(a, b, i + 1, 1)
           ELSE <<v>> \o BNSubFrom(a, b, i + 1, 0)

\* a - b for a >= b
BNSub(a, b) == BNNorm(BNSubFrom(a, b, 1, 0))

RECURSIVE BNMulSmallFrom(_, _, _, _)
BNMulSmallFrom(a, k, i, carry) ==
  IF i > Len(a) THEN (IF carry = 0 THEN <<>> ELSE <<carry>>)
  ELSE LET v == a[i] * k + carry
       IN  <<v % LIMB>> \o BNMulSmallFrom(a, k, i + 1, v \div LIMB)

\* a * k for 0 <= k < LIMB
BNMulSmall(a, k) == IF k = 0 THEN <<>> ELSE BNMulSmallFrom(a, k, 1, 0)

\* a * LIMB^n
BNShiftLimbs(a, n) == IF a = <<>> THEN <<>> ELSE [i \in 1..n |-> 0] \o a

RECURSIVE BNMulFrom(_, _, _)
BNMulFrom(a, b, i) ==
  IF i > Len(b) THEN <<>>
  ELSE BNAdd(BNShiftLimbs(BNMulSmall(a, b[i]), i - 1), BNMulFrom(a, b, i + 1))

BNMul(a, b) == BNMulFrom(a, b, 1)

\* a * 2^s
BNShl(a, s) == BNShiftLimbs(BNMulSmall(a, Pow2(s % LIMB_BITS)), s \div LIMB_BITS)

RECURSIVE BNDivSmallFrom(_, _, _, _)
BNDivSmallFrom(a, k, i, rem) ==
  IF i = 0 THEN <<<<>>, rem>>
  ELSE LET v == rem * LIMB + a[i]
           rest == BNDivSmallFrom(a, k, i - 1, v % k)
       IN  <<rest[1] \o <<v \div k>>, rest[2]>>

\* <<floor(a / k), a mod k>> for 0 < k < LIMB, from the top digit down
BNDivSmall(a, k) ==
  LET qr == BNDivSmallFrom(a, k, Len(a), 0)
  IN  <<BNNorm(qr[1]), qr[2]>>

\* floor(a / 2^s)
BNShr(a, s) ==
  LET limbs == s \div LIMB_BITS
      rest == IF limbs >= Len(a) THEN <<>> ELSE SubSeq(a, limbs + 1, Len(a))
  IN  BNDivSmall(rest, Pow2(s % LIMB_BITS))[1]

\* bit number i (from 0) of a
BNBit(a, i) ==
  (BNDigit(a, i \div LIMB_BITS + 1) \div Pow2(i % LIMB_BITS)) % 2

\* whether the s lowest bits of a are all 0
BNLowZero(a, s) ==
  /\ \A i \in 1..(s \div LIMB_BITS) : BNDigit(a, i) = 0
  /\ BNDigit(a, s \div LIMB_BITS + 1) % Pow2(s % LIMB_BITS) = 0

RECURSIVE IntBitLen(_)
IntBitLen(n) == IF n = 0 THEN 0 ELSE 1 + IntBitLen(n \div 2)

\* number of significant bits of a
BNBitLen(a) ==
  IF a = <<>> THEN 0 ELSE LIMB_BITS * (Len(a) - 1) + IntBitLen(a[Len(a)])

\* the largest digit q with d * q <= r, given an estimate q that is not
\* below it
RECURSIVE BNFixDigit(_, _, _)
BNFixDigit(r, d, q) ==
  IF BNCmp(BNMulSmall(d, q), r) > 0 THEN BNFixDigit(r, d, q - 1) ELSE q

\* one step of long division by d (top digit at least LIMB / 2): the
\* remainder so far r (r < d) takes the next digit x; <<quotient digit, new
\* remainder>>
BNDivStep(r, d, x) ==
  LET r1 == BNNorm(<<x>> \o r)
      top == Len(d)
      est == IF Len(r1) < top THEN 0
             ELSE IF Len(r1) = top THEN r1[top] \div d[top]
             ELSE (r1[top + 1] * LIMB + r1[top]) \div d[top]
      q == BNFixDigit(r1, d, IF est >= LIMB THEN LIMB - 1 ELSE est)
  IN  <<q, BNSub(r1, BNMulSmall(d, q))>>

RECURSIVE BNDivFrom(_, _, _, _)
BNDivFrom(n, d, i, r) ==
  IF i = 0 THEN <<<<>>, r>>
  ELSE LET st == BNDivStep(r, d, n[i])
           rest == BNDivFrom(n, d, i - 1, st[2])
       IN  IF st[1] < 0 THEN <<<<>>, <<>>>>
           ELSE <<rest[1] \o <<st[1]>>, rest[2]>>

\* <<floor(n / d), n mod d>> for d # 0: long division in base LIMB after
\* scaling both so that the top digit of the divisor is at least LIMB / 2; the
\* top Len(d) - 1 digits of the dividend are the first remainder
BNDivMod(n, d) ==
  LET sh == LIMB_BITS - IntBitLen(d[Len(d)])
      ns == BNShl(n, sh)
      lower == Len(ns) - Len(d) + 1
      qr == IF lower < 1 THEN <<<<>>, ns>>
            ELSE BNDivFrom(ns, BNShl(d, sh), lower, SubSeq(ns, lower + 1, Len(ns)))
  IN  <<BNNorm(qr[1]), BNShr(qr[2], sh)>>

\* <<floor(n * 2^k / d), whether the division is exact>>
BNDivScaled(n, d, k) ==
  LET qr == BNDivMod(BNShl(n, k), d)
  IN  <<qr[1], qr[2] = <<>>>>

\* floor(sqrt(v)) for 0 < v < 2^30 by Newton's iteration from x >= sqrt(v)
RECURSIVE IntSqrtFrom(_, _)
IntSqrtFrom(v, x) ==
  LET y == (x + v \div x) \div 2
  IN  IF y >= x THEN x ELSE IntSqrtFrom(v, y)

\* Newton's iteration for the integer square root, from x >= sqrt(n)
RECURSIVE BNSqrtFrom(_, _)
BNSqrtFrom(n, x) ==
  LET y == BNShr(BNAdd(x, BNDivMod(n, x)[1]), 1)
  IN  IF BNCmp(y, x) >= 0 THEN x ELSE BNSqrtFrom(n, y)

\* <<floor(sqrt(n)), whether n is a square>>; the iteration starts above
\* sqrt(n), at the square root of the top 29 or 30 bits of n, plus one,
\* scaled back
BNSqrt(n) ==
  IF n = <<>> THEN <<<<>>, TRUE>>
  ELSE LET len == BNBitLen(n)
           t == IF len <= 30 THEN 0 ELSE (len - 29) - ((len - 29) % 2)
           top == BNShr(n, t)
           v == BNDigit(top, 1) + LIMB * BNDigit(top, 2)
           start == BNShl(BNFromInt(IntSqrtFrom(v, LIMB) + 1), t \div 2)
           r == BNSqrtFrom(n, start)
       IN  <<r, BNMul(r, r) = n>>

\* A binary64 value is zero, Infinity, or (-1)^neg * m * 2^e with the
\* significand m normalised to exactly 53 bits.  Exponent overflow, subnormal
\* values and NaN do not arise from the reading times of the model.
DZero == [kind |-> "finite", neg |-> FALSE, m |-> <<>>, e |-> 0]
DInfinity == [kind |-> "infinity", neg |-> FALSE, m |-> <<>>, e |-> 0]

\* the binary64 value nearest to m * 2^e (ties to even); sticky tells that
\* the exact value is slightly above m * 2^e (m then has more than 54 bits)
DRound(neg, m, e, sticky) ==
  IF m = <<>> THEN DZero
  ELSE LET len == BNBitLen(m)
       IN  IF len <= SIGNIFICAND_BITS
           THEN [kind |-> "finite", neg |-> neg,
                 m |-> BNShl(m, SIGNIFICAND_BITS - len),
                 e |-> e - (SIGNIFICAND_BITS - len)]
           ELSE LET s == len - SIGNIFICAND_BITS
                    q == BNShr(m, s)
                    half == BNBit(m, s - 1) = 1
                    rest == ~BNLowZero(m, s - 1) \/ sticky
                    q1 == IF half /\ (rest \/ BNBit(q, 0) = 1) THEN BNAdd(q, <<1>>) ELSE q
                IN  IF BNBitLen(q1) > SIGNIFICAND_BITS
                    THEN [kind |-> "finite", neg |-> neg, m |-> BNShr(q1, 1), e |-> e + s + 1]
                    ELSE [kind |-> "finite", neg |-> neg, m |-> q1, e |-> e + s]

\* an integer of absolute value below 2^31 as a number
DFromInt(n) == DRound(n < 0, BNFromInt(Abs(n)), 0, FALSE)

DIsPos(a) == a.kind = "finite" /\ a.m # <<>> /\ ~a.neg

\* a + b
DAdd(a, b) ==
  IF a.m = <<>> THEN b
  ELSE IF b.m = <<>> THEN a
  ELSE LET e == IF a.e < b.e THEN a.e ELSE b.e
           ma == BNShl(a.m, a.e - e)
           mb == BNShl(b.m, b.e - e)
           c == BNCmp(ma, mb)
       IN  IF a.neg = b.neg THEN DRound(a.neg, BNAdd(ma, mb), e, FALSE)
           ELSE IF c = 0 THEN DZero
           ELSE IF c > 0 THEN DRound(a.neg, BNSub(ma, mb), e, FALSE)
           ELSE DRound(b.neg, BNSub(mb, ma), e, FALSE)

\* a - b
DSub(a, b) == DAdd(a, IF b.m = <<>> THEN b ELSE [b EXCEPT !.neg = ~b.neg])

\* a * b
DMul(a, b) ==
  IF a.m = <<>> \/ b.m = <<>> THEN DZero
  ELSE DRound(a.neg # b.neg, BNMul(a.m, b.m), a.e + b.e, FALSE)

\* bits of quotient and of square root computed before rounding
GUARD_BITS == 56

\* a / b for finite a and b # 0
DDiv(a, b) ==
  IF a.m = <<>> \/ b.kind = "infinity" THEN DZero
  ELSE LET qr == BNDivScaled(a.m, b.m, GUARD_BITS)
       IN  DRound(a.neg # b.neg, qr[1], a.e - b.e - GUARD_BITS, ~qr[2])

\* Math.sqrt(a) for a >= 0
DSqrt(a) ==
  IF a.m = <<>> THEN DZero
  ELSE LET s == GUARD_BITS + 2 + (IF (a.e % 2 = 0) THEN 0 ELSE 1)
           r == BNSqrt(BNShl(a.m, s))
       IN  DRound(FALSE, r[1], (a.e - s) \div 2, ~r[2])

\* the number literal n / d (two small positive integers), as written in a
\* stored evaluation
DRatio(n, d) == DDiv(DFromInt(n), DFromInt(d))

\* the evaluation of a case nobody has scored or timed yet
DEFAULT_EVAL ==
  [t2 |-> 0, difusion |-> 0, edc |-> 0, viradsFinal |-> 0,
   t2Confidence |-> 0, difusionConfidence |-> 0, edcConfidence |-> 0,
   viradsFinalConfidence |-> 0, imageQuality |-> 0, readingTime |-> DZero]

(* ------------------------ STATISTICAL UTILITIES ------------------------- *)

\* data.reduce((a, b) => a + b, 0) from element i on, acc being the sum so far
RECURSIVE sumFrom(_, _, _)
sumFrom(data, acc, i) ==
  IF i > Len(data) THEN acc
  ELSE sumFrom(data, DAdd(acc, data[i]), i + 1)

mean(data) ==
  IF Len(data) = 0 THEN DZero
  ELSE DDiv(sumFrom(data, DZero, 1), DFromInt(Len(data)))

\* data.reduce((acc, val) => acc + (val - m) ** 2, 0); the square is the
\* correctly rounded product
RECURSIVE squaresFrom(_, _, _, _)
squaresFrom(data, m, acc, i) ==
  IF i > Len(data) THEN acc
  ELSE LET dev == DSub(data[i], m)
       IN  squaresFrom(data, m, DAdd(acc, DMul(dev, dev)), i + 1)

stdDev(data) ==
  IF Len(data) < 2 THEN DZero
  ELSE LET m == mean(data)
           variance == DDiv(squaresFrom(data, m, DZero, 1), DFromInt(Len(data) - 1))
       IN  DSqrt(variance)

\* the call betinc(x, a, b).  The value of the incomplete beta function is
\* not evaluated: the call is kept with its three arguments.
betinc(x, a, b) == [fn |-> "betinc", x |-> x, a |-> a, b |-> b]

\* the arguments of the logGamma calls of a betinc call, in the order of the
\* calls: none when x is 0 or 1 (bt is then 0)
logGammaArgs(call) ==
  IF call.x = DZero \/ call.x = DFromInt(1) THEN <<>>
  ELSE <<DAdd(call.a, call.b), call.a, call.b>>

\* logGamma(x) takes its reflection branch: x < 0.5
logGammaReflects(x) == DIsPos(DSub(DRatio(1, 2), x))

\* the value null
Null == [null |-> TRUE]

\* the pooled standard error of tTestIndependent (both samples of size >= 2)
pooledStandardError(sample1, sample2) ==
  LET n1 == Len(sample1)
      n2 == Len(sample2)
      std1 == stdDev(sample1)
      std2 == stdDev(sample2)
      pooledVar == DDiv(DAdd(DMul(DFromInt(n1 - 1), DMul(std1, std1)),
                             DMul(DFromInt(n2 - 1), DMul(std2, std2))),
                        DFromInt(n1 + n2 - 2))
  IN  DSqrt(DMul(pooledVar, DAdd(DRatio(1, n1), DRatio(1, n2))))

\* the p-value with the shape parameter (df - 1) / 2
tTestPShapeBelow(t, df) ==
  betinc(DDiv(DFromInt(df), DAdd(DFromInt(df), DMul(t, t))),
         DDiv(DFromInt(df - 1), DFromInt(2)), DRatio(1, 2))

\* p = betinc(df / (df + t * t), df / 2, 0.5)
tTestP(t, df) ==
  betinc(DDiv(DFromInt(df), DAdd(DFromInt(df), DMul(t, t))),
         DDiv(DFromInt(df), DFromInt(2)), DRatio(1, 2))

\* tTestIndependent whose size guard needs both samples to be too small
tTestIndependentBothSmall(sample1, sample2) ==
  IF Len(sample1) < 2 /\ Len(sample2) < 2 THEN Null
  ELSE LET n1 == Len(sample1)
           n2 == Len(sample2)
           se == pooledStandardError(sample1, sample2)
           df == n1 + n2 - 2
       IN  IF se = DZero THEN [t |-> DInfinity, df |-> df, p |-> DZero]
           ELSE LET t == DDiv(DSub(mean(sample1), mean(sample2)), se)
                IN  [t |-> t, df |-> df, p |-> tTestP(t, df)]

tTestIndependent(sample1, sample2) ==
  IF Len(sample1) < 2 \/ Len(sample2) < 2 THEN Null
  ELSE LET n1 == Len(sample1)
           n2 == Len(sample2)
           se == pooledStandardError(sample1, sample2)
           df == n1 + n2 - 2
       IN  IF se = DZero THEN [t |-> DInfinity, df |-> df, p |-> DZero]
           ELSE LET t == DDiv(DSub(mean(sample1), mean(sample2)), se)
                IN  [t |-> t, df |-> df, p |-> tTestP(t, df)]

\* sample1.map((d, i) => d - sample2[i])
pairDiffs(sample1, sample2) ==
  [i \in 1..Len(sample1) |-> DSub(sample1[i], sample2[i])]

\* tTestPaired that takes the spread of the first sample for that of the
\* differences
tTestPairedSpreadOfFirst(sample1, sample2) ==
  IF Len(sample1) # Len(sample2) \/ Len(sample1) < 2 THEN Null
  ELSE LET n == Len(sample1)
           diffs == pairDiffs(sample1, sample2)
           meanDiff == mean(diffs)
           stdDiff == stdDev(sample1)
           df == n - 1
       IN  IF stdDiff = DZero THEN [t |-> DInfinity, df |-> df, p |-> DZero]
           ELSE LET t == DDiv(meanDiff, DDiv(stdDiff, DSqrt(DFromInt(n))))
                IN  [t |-> t, df |-> df, p |-> tTestP(t, df)]

tTestPaired(sample1, sample2) ==
  IF Len(sample1) # Len(sample2) \/ Len(sample1) < 2 THEN Null
  ELSE LET n == Len(sample1)
           diffs == pairDiffs(sample1, sample2)
           meanDiff == mean(diffs)
           stdDiff == stdDev(diffs)
           df == n - 1
       IN  IF stdDiff = DZero THEN [t |-> DInfinity, df |-> df, p |-> DZero]
           ELSE LET t == DDiv(meanDiff, DDiv(stdDiff, DSqrt(DFromInt(n))))
                IN  [t |-> t, df |-> df, p |-> tTestP(t, df)]

(* ------------------------------ Math.exp ------------------------------- *)

DOne == DFromInt(1)
DTwo == DFromInt(2)
DHalf == DRatio(1, 2)

\* -a and Math.abs(a)
DNeg(a) == IF a.m = <<>> THEN a ELSE [a EXCEPT !.neg = ~a.neg]
DAbs(a) == [a EXCEPT !.neg = FALSE]

\* a < b for finite a and b
DLt(a, b) == DIsPos(DSub(b, a))

\* a * 2^k, exactly
DScale(a, k) == IF a.m = <<>> THEN a ELSE [a EXCEPT !.e = a.e + k]

\* the natural number whose decimal digits are those of the groups of three
\* digits given, the first group being the highest
RECURSIVE BNFromGroups(_, _, _)
BNFromGroups(groups, acc, i) ==
  IF i > Len(groups) THEN acc
  ELSE BNFromGroups(groups,
                    BNAdd(BNMulSmall(acc, 1000), BNFromInt(groups[i])), i + 1)

RECURSIVE BNPow10(_)
BNPow10(k) == IF k = 0 THEN <<1>> ELSE BNMulSmall(BNPow10(k - 1), 10)

\* the number a decimal literal denotes: the binary64 value nearest to
\* (-1)^neg * groups / 10^scale
DDecimal(neg, groups, scale) ==
  LET num == BNFromGroups(groups, <<>>, 1)
      den == BNPow10(scale)
      k == GUARD_BITS + (IF BNBitLen(den) > BNBitLen(num)
                         THEN BNBitLen(den) - BNBitLen(num) ELSE 0)
      qr == BNDivScaled(num, den, k)
  IN  DRound(neg, qr[1], 0 - k, ~qr[2])

\* (int) a: a truncated toward zero, for |a| < 2^30
DToInt(a) ==
  IF a.m = <<>> THEN 0
  ELSE LET n == IF a.e >= 0 THEN BNShl(a.m, a.e) ELSE BNShr(a.m, 0 - a.e)
           v == BNDigit(n, 1) + LIMB * BNDigit(n, 2)
       IN  IF a.neg THEN 0 - v ELSE v

\* the smallest exponent of a bit of a binary64 value and the exponent of
\* the largest power of two
MIN_EXPONENT == 0 - 1074
MAX_EXPONENT == 1023

\* a product whose exact value is a: rounded once more when it is below
\* the normal range, Infinity when it is above the range
DRange(a) ==
  IF a.m = <<>> THEN a
  ELSE IF a.e + SIGNIFICAND_BITS - 1 > MAX_EXPONENT
  THEN [DInfinity EXCEPT !.neg = a.neg]
  ELSE IF a.e >= MIN_EXPONENT THEN a
  ELSE LET s == MIN_EXPONENT - a.e
           q == BNShr(a.m, s)
           half == BNBit(a.m, s - 1) = 1
           rest == ~BNLowZero(a.m, s - 1)
           q1 == IF half /\ (rest \/ BNBit(q, 0) = 1) THEN BNAdd(q, <<1>>)
                 ELSE q
       IN  DRound(a.neg, q1, MIN_EXPONENT, FALSE)

\* the constants of the exponential of the JavaScript engine (V8 computes
\* Math.exp as fdlibm's __ieee754_exp does)
EXP ==
  [o_threshold |-> DDecimal(FALSE, <<709, 782, 712, 893, 383, 973, 96>>, 18),
   u_threshold |-> DDecimal(TRUE, <<745, 133, 219, 101, 941, 108, 420>>, 18),
   ln2HI |-> DDecimal(FALSE, <<693, 147, 180, 369, 123, 816, 490>>, 21),
   ln2LO |-> DDecimal(FALSE, <<190, 821, 492, 927, 58, 770, 2>>, 30),
   invln2 |-> DDecimal(FALSE, <<1, 442, 695, 40, 888, 963, 387>>, 18),
   P1 |-> DDecimal(FALSE, <<166, 666, 666, 666, 666, 19, 37>>, 21),
   P2 |-> DDecimal(TRUE, <<277, 777, 777, 770, 155, 933, 842>>, 23),
   P3 |-> DDecimal(FALSE, <<661, 375, 632, 143, 793, 436, 117>>, 25),
   P4 |-> DDecimal(TRUE, <<165, 339, 22, 54, 652, 515, 390>>, 26),
   P5 |-> DDecimal(FALSE, <<413, 813, 679, 705, 723, 846, 39>>, 28),
   E |-> DDecimal(FALSE, <<2, 718, 281, 828, 459, 45>>, 15),
   \* the smallest numbers whose high word is 0x40862E42, above 0x3FD62E42,
   \* 0x3FF0A2B2 and 0x3E300000
   filter |-> DScale(DFromInt(1453634), 0 - 11),
   halfLn2 |-> DScale(DFromInt(1453635), 0 - 22),
   threeHalvesLn2 |-> DScale(DFromInt(1090226), 0 - 20),
   tiny |-> DScale(DOne, 0 - 28)]

\* the argument reduction of exp: x = k * ln2 + (hi - lo)
expReduced(x) ==
  IF DLt(DAbs(x), EXP.threeHalvesLn2)
  THEN [hi |-> DSub(x, IF x.neg THEN DNeg(EXP.ln2HI) ELSE EXP.ln2HI),
        lo |-> IF x.neg THEN DNeg(EXP.ln2LO) ELSE EXP.ln2LO,
        k |-> IF x.neg THEN 0 - 1 ELSE 1]
  ELSE LET k == DToInt(DAdd(DMul(EXP.invln2, x),
                            IF x.neg THEN DNeg(DHalf) ELSE DHalf))
           t == DFromInt(k)
       IN  [hi |-> DSub(x, DMul(t, EXP.ln2HI)), lo |-> DMul(t, EXP.ln2LO),
            k |-> k]

\* x - t * (P1 + t * (P2 + t * (P3 + t * (P4 + t * P5)))) for t = x * x
expC(x) ==
  LET t == DMul(x, x)
      p4 == DAdd(EXP.P4, DMul(t, EXP.P5))
      p3 == DAdd(EXP.P3, DMul(t, p4))
      p2 == DAdd(EXP.P2, DMul(t, p3))
      p1 == DAdd(EXP.P1, DMul(t, p2))
  IN  DSub(x, DMul(t, p1))

\* Math.exp(x) for a finite x
exp(x) ==
  LET ax == DAbs(x)
      large == ~DLt(ax, EXP.filter)
  IN  IF large /\ DLt(EXP.o_threshold, x) THEN DInfinity
      ELSE IF large /\ DLt(x, EXP.u_threshold) THEN DZero
      ELSE IF ~DLt(ax, EXP.halfLn2)
      THEN IF x = DOne THEN EXP.E
           ELSE LET r == expReduced(x)
                    x1 == DSub(r.hi, r.lo)
                    c == expC(x1)
                    y == DSub(DOne,
                              DSub(DSub(r.lo, DDiv(DMul(x1, c), DSub(DTwo, c))),
                                   r.hi))
                IN  DRange(DScale(y, r.k))
      ELSE IF DLt(ax, EXP.tiny) THEN DAdd(DOne, x)
      ELSE LET c == expC(x)
           IN  DSub(DOne, DSub(DDiv(DMul(x, c), DSub(c, DTwo)), x))

(* -------------------- DIAGNOSTIC ACCURACY UTILITIES --------------------- *)

\* the number literals of standardNormalCdf
CDF ==
  [p |-> DDecimal(FALSE, <<3, 275, 911>>, 7),
   a1 |-> DDecimal(FALSE, <<254, 829, 592>>, 9),
   a2 |-> DDecimal(TRUE, <<284, 496, 736>>, 9),
   a3 |-> DDecimal(FALSE, <<1, 421, 413, 741>>, 9),
   a4 |-> DDecimal(TRUE, <<1, 453, 152, 27>>, 9),
   a5 |-> DDecimal(FALSE, <<1, 61, 405, 429>>, 9)]

\* the local erf of standardNormalCdf(z); as in the source, the polynomial
\* is (((a5 t + a4) t + a3) t + a2) t + a1, without a final factor t
erfApprox(z) ==
  LET x == DDiv(DAbs(z), DSqrt(DTwo))
      t == DDiv(DOne, DAdd(DOne, DMul(CDF.p, x)))
      h4 == DAdd(DMul(CDF.a5, t), CDF.a4)
      h3 == DAdd(DMul(h4, t), CDF.a3)
      h2 == DAdd(DMul(h3, t), CDF.a2)
      h1 == DAdd(DMul(h2, t), CDF.a1)
  IN  DSub(DOne, DMul(h1, exp(DMul(DNeg(x), x))))

\* standardNormalCdf(z) = 0.5 * (1.0 + sign * erf)
standardNormalCdf(z) ==
  LET signedErf == IF z.neg THEN DNeg(erfApprox(z)) ELSE erfApprox(z)
  IN  DMul(DHalf, DAdd(DOne, signedErf))

\* calculatePValue(z) = 2 * (1 - standardNormalCdf(Math.abs(z)))
calculatePValue(z) == DMul(DTwo, DSub(DOne, standardNormalCdf(DAbs(z))))

\* zTestForProportions whose guard for an empty sample returns 0
zTestForProportionsZeroOnEmpty(success1, total1, success2, total2) ==
  IF total1 = 0 \/ total2 = 0 THEN DZero
  ELSE LET p1 == DRatio(success1, total1)
           p2 == DRatio(success2, total2)
           pPooled == DRatio(success1 + success2, total1 + total2)
       IN  IF pPooled = DZero \/ pPooled = DOne THEN DOne
           ELSE LET se == DSqrt(DMul(DMul(pPooled, DSub(DOne, pPooled)),
                                     DAdd(DRatio(1, total1), DRatio(1, total2))))
                IN  IF se = DZero THEN DOne
                    ELSE calculatePValue(DDiv(DSub(p1, p2), se))

\* zTestForProportions of four counts (the successes not above the totals)
zTestForProportions(success1, total1, success2, total2) ==
  IF total1 = 0 \/ total2 = 0 THEN DOne
  ELSE LET p1 == DRatio(success1, total1)
           p2 == DRatio(success2, total2)
           pPooled == DRatio(success1 + success2, total1 + total2)
       IN  IF pPooled = DZero \/ pPooled = DOne THEN DOne
           ELSE LET se == DSqrt(DMul(DMul(pPooled, DSub(DOne, pPooled)),
                                     DAdd(DRatio(1, total1), DRatio(1, total2))))
                IN  IF se = DZero THEN DOne
                    ELSE calculatePValue(DDiv(DSub(p1, p2), se))

(* ------------------- confusion matrix, metrics, AUC -------------------- *)

\* a record of evaluations with no entry (the JavaScript object {})
NoEvaluations == [k \in {} |-> DEFAULT_EVAL]

\* the keys S of an object after .map(Number).sort((a, b) => a - b)
RECURSIVE SortedKeys(_)
SortedKeys(S) ==
  IF S = {} THEN <<>>
  ELSE LET m == CHOOSE x \in S : \A y \in S : x <= y
       IN  <<m>> \o SortedKeys(S \ {m})

\* matrixStep with the test-positive comparison written > instead of >=
matrixStepStrict(matrix, evaluations, c, cutoff) ==
  IF c.caseNumber \notin DOMAIN evaluations THEN matrix
  ELSE LET evaluation == evaluations[c.caseNumber]
       IN  IF evaluation.viradsFinal = 0 THEN matrix
           ELSE LET isTestPositive == evaluation.viradsFinal > cutoff
                    isConditionPositive == c.isCVMIPositive
                IN  CASE isTestPositive /\ isConditionPositive ->
                           [matrix EXCEPT !.tp = @ + 1]
                      [] isTestPositive /\ ~isConditionPositive ->
                           [matrix EXCEPT !.fp = @ + 1]
                      [] ~isTestPositive /\ isConditionPositive ->
                           [matrix EXCEPT !.fn = @ + 1]
                      [] ~isTestPositive /\ ~isConditionPositive ->
                           [matrix EXCEPT !.tn = @ + 1]

\* matrixStep without the skip of the sentinel score 0
matrixStepWithSentinel(matrix, evaluations, c, cutoff) ==
  IF c.caseNumber \notin DOMAIN evaluations THEN matrix
  ELSE LET isTestPositive == evaluations[c.caseNumber].viradsFinal >= cutoff
           isConditionPositive == c.isCVMIPositive
       IN  CASE isTestPositive /\ isConditionPositive ->
                  [matrix EXCEPT !.tp = @ + 1]
             [] isTestPositive /\ ~isConditionPositive ->
                  [matrix EXCEPT !.fp = @ + 1]
             [] ~isTestPositive /\ isConditionPositive ->
                  [matrix EXCEPT !.fn = @ + 1]
             [] ~isTestPositive /\ ~isConditionPositive ->
                  [matrix EXCEPT !.tn = @ + 1]

\* the body of the forEach of getMatrixForEvaluations for one case c
matrixStep(matrix, evaluations, c, cutoff) ==
  IF c.caseNumber \notin DOMAIN evaluations THEN matrix
  ELSE LET evaluation == evaluations[c.caseNumber]
       IN  IF evaluation.viradsFinal = 0 THEN matrix
           ELSE LET isTestPositive == evaluation.viradsFinal >= cutoff
                    isConditionPositive == c.isCVMIPositive
                IN  CASE isTestPositive /\ isConditionPositive ->
                           [matrix EXCEPT !.tp = @ + 1]
                      [] isTestPositive /\ ~isConditionPositive ->
                           [matrix EXCEPT !.fp = @ + 1]
                      [] ~isTestPositive /\ isConditionPositive ->
                           [matrix EXCEPT !.fn = @ + 1]
                      [] ~isTestPositive /\ ~isConditionPositive ->
                           [matrix EXCEPT !.tn = @ + 1]

RECURSIVE matrixLoop(_, _, _, _, _)
matrixLoop(matrix, evaluations, cs, cutoff, i) ==
  IF i > Len(cs) THEN matrix
  ELSE matrixLoop(matrixStep(matrix, evaluations, cs[i], cutoff),
                  evaluations, cs, cutoff, i + 1)

getMatrixForEvaluations(evaluations, cs, cutoff) ==
  matrixLoop([tp |-> 0, fp |-> 0, tn |-> 0, fn |-> 0], evaluations, cs, cutoff, 1)

\* the local values of calculateMetrics up to the two denominators
metricsLocals(matrix, prev) ==
  LET totalPositives == matrix.tp + matrix.fn
      totalNegatives == matrix.tn + matrix.fp
      sensitivity == IF totalPositives > 0 THEN Rat(matrix.tp, totalPositives) ELSE RZero
      specificity == IF totalNegatives > 0 THEN Rat(matrix.tn, totalNegatives) ELSE RZero
      ppvNumerator == RMul(sensitivity, prev)
      npvNumerator == RMul(specificity, RSub(ROne, prev))
  IN  [sensitivity |-> sensitivity, specificity |-> specificity,
       ppvNumerator |-> ppvNumerator,
       ppvDenominator |-> RAdd(ppvNumerator,
                               RMul(RSub(ROne, specificity), RSub(ROne, prev))),
       npvNumerator |-> npvNumerator,
       npvDenominator |-> RAdd(npvNumerator, RMul(RSub(ROne, sensitivity), prev))]

\* calculateMetrics with 1 instead of 0 for a predictive value whose
\* denominator is not positive
calculateMetricsOneOnZero(matrix, prev) ==
  LET l == metricsLocals(matrix, prev)
      ppv == IF RIsPos(l.ppvDenominator)
             THEN RDiv(l.ppvNumerator, l.ppvDenominator) ELSE ROne
      npv == IF RIsPos(l.npvDenominator)
             THEN RDiv(l.npvNumerator, l.npvDenominator) ELSE ROne
  IN  [sensitivity |-> l.sensitivity, specificity |-> l.specificity,
       ppv |-> ppv, npv |-> npv]

\* calculateMetrics with 1 instead of 0 for the sensitivity or specificity of
\* an empty class
calculateMetricsOneOnEmpty(matrix, prev) ==
  LET totalPositives == matrix.tp + matrix.fn
      totalNegatives == matrix.tn + matrix.fp
      sensitivity == IF totalPositives > 0 THEN Rat(matrix.tp, totalPositives) ELSE ROne
      specificity == IF totalNegatives > 0 THEN Rat(matrix.tn, totalNegatives) ELSE ROne
      ppvNumerator == RMul(sensitivity, prev)
      ppvDenominator == RAdd(ppvNumerator,
                             RMul(RSub(ROne, specificity), RSub(ROne, prev)))
      ppv == IF RIsPos(ppvDenominator) THEN RDiv(ppvNumerator, ppvDenominator) ELSE RZero
      npvNumerator == RMul(specificity, RSub(ROne, prev))
      npvDenominator == RAdd(npvNumerator, RMul(RSub(ROne, sensitivity), prev))
      npv == IF RIsPos(npvDenominator) THEN RDiv(npvNumerator, npvDenominator) ELSE RZero
  IN  [sensitivity |-> sensitivity, specificity |-> specificity,
       ppv |-> ppv, npv |-> npv]

\* calculateMetrics with the specificity in place of the false-positive rate
\* in the PPV denominator and the sensitivity in place of the false-negative
\* rate in the NPV denominator
calculateMetricsRatesNotComplemented(matrix, prev) ==
  LET l == metricsLocals(matrix, prev)
      ppvDenominator == RAdd(l.ppvNumerator, RMul(l.specificity, RSub(ROne, prev)))
      npvDenominator == RAdd(l.npvNumerator, RMul(l.sensitivity, prev))
      ppv == IF RIsPos(ppvDenominator) THEN RDiv(l.ppvNumerator, ppvDenominator) ELSE RZero
      npv == IF RIsPos(npvDenominator) THEN RDiv(l.npvNumerator, npvDenominator) ELSE RZero
  IN  [sensitivity |-> l.sensitivity, specificity |-> l.specificity,
       ppv |-> ppv, npv |-> npv]

\* calculateMetrics with the two class totals exchanged in the denominators
calculateMetricsSwapped(matrix, prev) ==
  LET totalPositives == matrix.tn + matrix.fp
      totalNegatives == matrix.tp + matrix.fn
      sensitivity == IF totalPositives > 0 THEN Rat(matrix.tp, totalPositives) ELSE RZero
      specificity == IF totalNegatives > 0 THEN Rat(matrix.tn, totalNegatives) ELSE RZero
      ppvNumerator == RMul(sensitivity, prev)
      ppvDenominator == RAdd(ppvNumerator,
                             RMul(RSub(ROne, specificity), RSub(ROne, prev)))
      ppv == IF RIsPos(ppvDenominator) THEN RDiv(ppvNumerator, ppvDenominator) ELSE RZero
      npvNumerator == RMul(specificity, RSub(ROne, prev))
      npvDenominator == RAdd(npvNumerator, RMul(RSub(ROne, sensitivity), prev))
      npv == IF RIsPos(npvDenominator) THEN RDiv(npvNumerator, npvDenominator) ELSE RZero
  IN  [sensitivity |-> sensitivity, specificity |-> specificity,
       ppv |-> ppv, npv |-> npv]

calculateMetrics(matrix, prev) ==
  LET l == metricsLocals(matrix, prev)
      ppv == IF RIsPos(l.ppvDenominator)
             THEN RDiv(l.ppvNumerator, l.ppvDenominator) ELSE RZero
      npv == IF RIsPos(l.npvDenominator)
             THEN RDiv(l.npvNumerator, l.npvDenominator) ELSE RZero
  IN  [sensitivity |-> l.sensitivity, specificity |-> l.specificity,
       ppv |-> ppv, npv |-> npv]

\* the cases of calculateAUC: those with a non-sentinel final score
relevantCasesOf(evaluations, cs) ==
  LET evaluatedCaseNumbers ==
        {cn \in DOMAIN evaluations : evaluations[cn].viradsFinal > 0}
  IN  SelectSeq(cs, LAMBDA c : c.caseNumber \in evaluatedCaseNumbers)

\* x || 1
OrOne(x) == IF x = 0 THEN 1 ELSE x

\* rocPointAt with the specificity pushed as the false-positive rate
rocPointAtSpecificity(evaluations, relevantCases, cutoff) ==
  LET matrix == getMatrixForEvaluations(evaluations, relevantCases, cutoff)
      sensitivity == Rat(matrix.tp, OrOne(matrix.tp + matrix.fn))
      specificity == Rat(matrix.tn, OrOne(matrix.tn + matrix.fp))
  IN  [fpr |-> specificity, tpr |-> sensitivity]

\* the ROC point pushed for one cutoff
rocPointAt(evaluations, relevantCases, cutoff) ==
  LET matrix == getMatrixForEvaluations(evaluations, relevantCases, cutoff)
      sensitivity == Rat(matrix.tp, OrOne(matrix.tp + matrix.fn))
      specificity == Rat(matrix.tn, OrOne(matrix.tn + matrix.fp))
  IN  [fpr |-> RSub(ROne, specificity), tpr |-> sensitivity]

\* rocPoints after the loop and the final push
rocPoints(evaluations, relevantCases) ==
  <<[fpr |-> RZero, tpr |-> RZero]>>
  \o [i \in 1..Len(RocCutoffs) |->
        rocPointAt(evaluations, relevantCases, RocCutoffs[i])]
  \o <<[fpr |-> ROne, tpr |-> ROne]>>

\* [...new Map(points.map(p => [key, p])).values()]: one entry per key, at the
\* position of the key's first occurrence (entries with equal keys are equal)
RECURSIVE dedupe(_, _)
dedupe(points, i) ==
  IF i > Len(points) THEN <<>>
  ELSE IF \E j \in 1..(i - 1) : points[j] = points[i]
       THEN dedupe(points, i + 1)
       ELSE <<points[i]>> \o dedupe(points, i + 1)

\* insertion of p into a list sorted by fpr, after the entries that do not
\* compare greater (Array.prototype.sort is stable)
RECURSIVE insertByFpr(_, _)
insertByFpr(sorted, p) ==
  IF sorted = <<>> THEN <<p>>
  ELSE IF RLe(Head(sorted).fpr, p.fpr)
       THEN <<Head(sorted)>> \o insertByFpr(Tail(sorted), p)
       ELSE <<p>> \o sorted

RECURSIVE sortByFpr(_, _)
sortByFpr(points, n) ==
  IF n = 0 THEN <<>> ELSE insertByFpr(sortByFpr(points, n - 1), points[n])

uniqueSortedPoints(points) ==
  LET unique == dedupe(points, 1)
  IN  sortByFpr(unique, Len(unique))

\* trapezoidArea without the division by 2
RECURSIVE trapezoidAreaNoHalf(_, _)
trapezoidAreaNoHalf(points, i) ==
  IF i > Len(points) THEN RZero
  ELSE LET p1 == points[i - 1]
           p2 == points[i]
       IN  RAdd(RMul(RSub(p2.fpr, p1.fpr), RAdd(p1.tpr, p2.tpr)),
                trapezoidAreaNoHalf(points, i + 1))

\* the trapezoidal sum over the points from index i on
RECURSIVE trapezoidArea(_, _)
trapezoidArea(points, i) ==
  IF i > Len(points) THEN RZero
  ELSE LET p1 == points[i - 1]
           p2 == points[i]
       IN  RAdd(RMul(RMul(RSub(p2.fpr, p1.fpr), RAdd(p1.tpr, p2.tpr)), RHalf),
                trapezoidArea(points, i + 1))

\* calculateAUC without the return for a missing class
calculateAUCNoClassGuard(evaluations, cs) ==
  LET relevantCases == relevantCasesOf(evaluations, cs)
  IN  IF Len(relevantCases) = 0 THEN RHalf
      ELSE trapezoidArea(uniqueSortedPoints(rocPoints(evaluations, relevantCases)), 2)

calculateAUC(evaluations, cs) ==
  LET relevantCases == relevantCasesOf(evaluations, cs)
      totalPositives == Len(SelectSeq(relevantCases, LAMBDA c : c.isCVMIPositive))
      totalNegatives == Len(relevantCases) - totalPositives
  IN  IF Len(relevantCases) = 0 THEN RHalf
      ELSE IF totalPositives = 0 \/ totalNegatives = 0 THEN RHalf
      ELSE trapezoidArea(uniqueSortedPoints(rocPoints(evaluations, relevantCases)), 2)

(* --------------------------- AnalysisScreen ---------------------------- *)

VARIABLES
  cases,                      \* App: useState<CaseData[]>([])
  allUsers,                   \* App: useState<User[]>([])
  allEvaluations,             \* App: reader id -> case number -> Evaluation
  evaluationKeys,             \* App: the keys of allEvaluations as inserted
  evaluationCaseKeys,         \* App: reader id -> that reader's keys as inserted
  cutoff,                     \* AnalysisScreen: useState(4)
  prevalence,                 \* AnalysisScreen: useState(samplePrevalence)
  comparisonPercentage,       \* AnalysisScreen: useState(50)
  timeAnalysisCasePercentage, \* AnalysisScreen: useState(100)
  timeUser1,                  \* AnalysisScreen: useState(currentUser.id)
  timeUser2,                  \* AnalysisScreen: the first other reader
  expGroup1,                  \* AnalysisScreen: useState('Principiante')
  expGroup2,                  \* AnalysisScreen: useState('Experto')
  analysisMemo,               \* AnalysisScreen: the values of its two memos
  view,                       \* App: useState<View>('login')
  currentUser,                \* App: useState<User | null>(null)
  allSurveyResponses,         \* App: reader id -> SurveyResponse
  isLoaded,                   \* App: useState(false)
  localStorage,               \* the item stored under APP_STORAGE_KEY
  saveFailed,                 \* the last save effect has logged an error
  saveEffectPending,          \* the save effect of the last render is due
  storageFull,                \* localStorage.setItem throws: quota exceeded
  evaluationScreen,           \* state of EvaluationScreen while it is mounted
  uploadScreen,               \* state of UploadScreen while it is mounted
  fileReaders,                \* the FileReaders that have not finished
  pendingUploads,             \* the onUpload calls waiting in setTimeout
  surveyScreen                \* state of SurveyScreen while it is mounted

analysisVars == <<cutoff, prevalence, comparisonPercentage,
                  timeAnalysisCasePercentage, timeUser1, timeUser2,
                  expGroup1, expGroup2, analysisMemo>>

appVars == <<cases, allUsers, allEvaluations, evaluationKeys,
             evaluationCaseKeys, view, currentUser, allSurveyResponses,
             isLoaded, localStorage, saveFailed, saveEffectPending,
             storageFull>>

screenVars == <<evaluationScreen, uploadScreen, fileReaders, pendingUploads,
                surveyScreen>>

vars == <<analysisVars, appVars, screenVars>>

samplePrevalence(cs) ==
  IF Len(cs) = 0 THEN RZero
  ELSE Rat(Len(SelectSeq(cs, LAMBDA c : c.isCVMIPositive)), Len(cs))

\* allEvaluations[user.id] || {}
userEvalsOf(evs, user) ==
  IF user.id \in DOMAIN evs THEN evs[user.id] ELSE NoEvaluations

\* the keys with a final score > 0, ascending
evaluatedKeysOf(userEvals) ==
  SortedKeys({k \in DOMAIN userEvals : userEvals[k].viradsFinal > 0})

\* Math.ceil(n * (percentage / 100))
ceilPercent(n, percentage) == (n * percentage + 99) \div 100

\* keys.slice(0, count)
sliceKeys(keys, count) ==
  SubSeq(keys, 1, IF count < Len(keys) THEN count ELSE Len(keys))

SeqRange(q) == {q[i] : i \in 1..Len(q)}

evaluatedCasesOf(userEvals, cs) ==
  LET keys == SeqRange(evaluatedKeysOf(userEvals))
  IN  SelectSeq(cs, LAMBDA c : c.caseNumber \in keys)

finalMatrixOf(userEvals, cs, co) ==
  getMatrixForEvaluations(userEvals, evaluatedCasesOf(userEvals, cs), co)

\* partialKeysOf with the count rounded down
partialKeysOfRoundedDown(userEvals, percentage) ==
  LET evaluatedKeys == evaluatedKeysOf(userEvals)
  IN  sliceKeys(evaluatedKeys, (Len(evaluatedKeys) * percentage) \div 100)

partialKeysOf(userEvals, percentage) ==
  LET evaluatedKeys == evaluatedKeysOf(userEvals)
  IN  sliceKeys(evaluatedKeys, ceilPercent(Len(evaluatedKeys), percentage))

partialMatrixOf(userEvals, cs, co, percentage) ==
  LET partialKeys == SeqRange(partialKeysOf(userEvals, percentage))
      partialEvals == [k \in partialKeys |-> userEvals[k]]
      partialCases == SelectSeq(cs, LAMBDA c : c.caseNumber \in partialKeys)
  IN  getMatrixForEvaluations(partialEvals, partialCases, co)

ZeroMetrics == [sensitivity |-> RZero, specificity |-> RZero,
                ppv |-> RZero, npv |-> RZero]

\* the entry of resultsByUser pushed for one user
userResult(user, cs, evs, co, prev, percentage) ==
  LET userEvals == userEvalsOf(evs, user)
      evaluatedKeys == evaluatedKeysOf(userEvals)
  IN  IF Len(evaluatedKeys) = 0
      THEN [user |-> user, evaluatedCount |-> 0, finalMetrics |-> ZeroMetrics,
            partialMetrics |-> ZeroMetrics, finalAuc |-> RHalf,
            pValueSensitivity |-> DOne, pValueSpecificity |-> DOne]
      ELSE LET finalMatrix == finalMatrixOf(userEvals, cs, co)
               partialMatrix == partialMatrixOf(userEvals, cs, co, percentage)
               P_final == finalMatrix.tp + finalMatrix.fn
               N_final == finalMatrix.tn + finalMatrix.fp
               P_partial == partialMatrix.tp + partialMatrix.fn
               N_partial == partialMatrix.tn + partialMatrix.fp
           IN  [user |-> user,
                evaluatedCount |-> Len(evaluatedKeys),
                finalMetrics |-> calculateMetrics(finalMatrix, prev),
                partialMetrics |-> calculateMetrics(partialMatrix, prev),
                finalAuc |-> calculateAUC(userEvals, evaluatedCasesOf(userEvals, cs)),
                pValueSensitivity |->
                  zTestForProportions(partialMatrix.tp, P_partial, finalMatrix.tp, P_final),
                pValueSpecificity |->
                  zTestForProportions(partialMatrix.tn, N_partial, finalMatrix.tn, N_final)]

RECURSIVE sumMetric(_, _, _)
sumMetric(results, field, i) ==
  IF i > Len(results) THEN RZero
  ELSE RAdd(results[i].finalMetrics[field], sumMetric(results, field, i + 1))

\* averageMetricsOf dividing by the number of all readers
averageMetricsOfAllReaders(resultsByUser) ==
  LET validResults == SelectSeq(resultsByUser, LAMBDA r : r.evaluatedCount > 0)
      avg(field) == RDiv(sumMetric(validResults, field, 1),
                         Rat(OrOne(Len(resultsByUser)), 1))
  IN  [sensitivity |-> avg("sensitivity"), specificity |-> avg("specificity"),
       ppv |-> avg("ppv"), npv |-> avg("npv")]

averageMetricsOf(resultsByUser) ==
  LET validResults == SelectSeq(resultsByUser, LAMBDA r : r.evaluatedCount > 0)
      avg(field) == RDiv(sumMetric(validResults, field, 1),
                         Rat(OrOne(Len(validResults)), 1))
  IN  [sensitivity |-> avg("sensitivity"), specificity |-> avg("specificity"),
       ppv |-> avg("ppv"), npv |-> avg("npv")]

\* the callback of the analysisData memo, run on the props and state in
\* (a record with the fields of the memo's dependency list)
analysisDataOf(in) ==
  LET resultsByUser ==
        [i \in 1..Len(in.allUsers) |->
           userResult(in.allUsers[i], in.cases, in.allEvaluations, in.cutoff,
                      in.prevalence, in.comparisonPercentage)]
  IN  [resultsByUser |-> resultsByUser,
       averageMetrics |-> averageMetricsOf(resultsByUser)]

\* the props and state the analysisData memo reads
analysisInputs ==
  [cutoff |-> cutoff, cases |-> cases, allEvaluations |-> allEvaluations,
   allUsers |-> allUsers, prevalence |-> prevalence,
   comparisonPercentage |-> comparisonPercentage]

\* the value of the analysisData memo for the current props and state
analysisData == analysisDataOf(analysisInputs)

\* getFilteredEvaluations of the timeAnalysisData memo
getFilteredEvaluations(userEvals, percentage) ==
  IF percentage = 100 THEN userEvals
  ELSE LET sortedKeys == SortedKeys(DOMAIN userEvals)
           count == ceilPercent(Len(sortedKeys), percentage)
           filteredKeys == SeqRange(sliceKeys(sortedKeys, count))
       IN  [k \in filteredKeys |-> userEvals[k]]

\* evaluatedCasesCount of EvaluationScreen (the progress count)
evaluatedCasesCount(evaluations) ==
  Cardinality({k \in DOMAIN evaluations : evaluations[k].viradsFinal > 0})

(* ------------------- AnalysisScreen: time analysis --------------------- *)

ALL_READERS_ID == "all-readers"

\* the options of the two experience selects
experienceLevels == <<"Principiante", "Intermedio", "Experto">>

\* the initial values of the four selections of the time analysis
InitialExpGroup1 == "Principiante"
InitialExpGroup2 == "Experto"
initialTimeUser1(user) == user.id

\* allUsers.find(u => u.id !== currentUser.id)?.id || ALL_READERS_ID
initialTimeUser2(users, user) ==
  LET others == SelectSeq(users, LAMBDA u : u.id # user.id)
  IN  IF Len(others) > 0 /\ others[1].id # "" THEN others[1].id
      ELSE ALL_READERS_ID

\* getFilteredEvaluations(allEvaluations[id] || {})
filteredEvalsOf(id) ==
  getFilteredEvaluations(IF id \in DOMAIN allEvaluations THEN allEvaluations[id]
                         ELSE NoEvaluations,
                         timeAnalysisCasePercentage)

\* a case number that is an array index when it is the key of an object:
\* an integer from 0 to 2^32 - 2 (k \div 2^16 < 2^16 is k < 2^32); a
\* negative case number is none, and neither is one from 2^32 - 1 on
isArrayIndex(k) ==
  /\ k >= 0
  /\ k \div 65536 < 65536
  /\ ~(k \div 65536 = 65535 /\ k % 65536 = 65535)

\* Object.keys(o).map(Number), which is also the order of Object.values(o),
\* of an object whose keys were inserted in the order inserted: the array
\* indexes ascending, then the other keys in the order of their insertion
objectKeys(inserted) ==
  SortedKeys({k \in SeqRange(inserted) : isArrayIndex(k)})
  \o SelectSeq(inserted, LAMBDA k : ~isArrayIndex(k))

\* the keys of getFilteredEvaluations(userEvals) in the order of their
\* insertion, inserted being that order for userEvals: the object returned
\* is userEvals itself at 100 %, and otherwise a new object that got the
\* first count of the sorted keys one after the other
filteredKeysInserted(inserted, percentage) ==
  IF percentage = 100 THEN inserted
  ELSE LET sortedKeys == SortedKeys(SeqRange(inserted))
       IN  sliceKeys(sortedKeys, ceilPercent(Len(sortedKeys), percentage))

\* Object.keys(getFilteredEvaluations(allEvaluations[id] || {})).map(Number)
filteredKeysOf(id) ==
  objectKeys(filteredKeysInserted(IF id \in DOMAIN evaluationCaseKeys
                                  THEN evaluationCaseKeys[id] ELSE <<>>,
                                  timeAnalysisCasePercentage))

\* reading times of the evaluations evs at the keys, in the order of the keys
timesAt(evs, keys) == [i \in 1..Len(keys) |-> evs[keys[i]].readingTime]

\* Object.values(getFilteredEvaluations(allEvaluations[id] || {}))
\*   .map(e => e.readingTime).filter(t => t > 0)
positiveTimes(id) ==
  LET evs == filteredEvalsOf(id)
  IN  SelectSeq(timesAt(evs, filteredKeysOf(id)), DIsPos)

\* mean reading time of case caseNum over the readers who timed it
allReadersAvgTime(caseNum) ==
  LET timed == SelectSeq(allUsers, LAMBDA u :
                 LET evs == filteredEvalsOf(u.id)
                 IN  caseNum \in DOMAIN evs /\ DIsPos(evs[caseNum].readingTime))
  IN  mean([i \in 1..Len(timed) |-> filteredEvalsOf(timed[i].id)[caseNum].readingTime])

\* the case numbers some reader has a positive filtered reading time for,
\* ascending
timedCaseKeys ==
  SortedKeys({k \in UNION {DOMAIN filteredEvalsOf(allUsers[i].id) :
                             i \in 1..Len(allUsers)} :
                \E i \in 1..Len(allUsers) :
                  LET evs == filteredEvalsOf(allUsers[i].id)
                  IN  k \in DOMAIN evs /\ DIsPos(evs[k].readingTime)})

\* the times of the learning curve.  With all readers selected: for every
\* case some reader has timed, the mean of its positive reading times, the
\* readers taken in the order of the list; with one reader selected: every
\* filtered evaluation of that reader.  Both in ascending case order.
learningCurveTimes ==
  IF timeUser1 = ALL_READERS_ID
  THEN [i \in 1..Len(timedCaseKeys) |-> allReadersAvgTime(timedCaseKeys[i])]
  ELSE LET filteredEvals == filteredEvalsOf(timeUser1)
       IN  timesAt(filteredEvals, SortedKeys(DOMAIN filteredEvals))

splitIndex == ceilPercent(Len(learningCurveTimes), comparisonPercentage)
firstHalfTimes == sliceKeys(learningCurveTimes, splitIndex)
secondHalfTimes ==
  SubSeq(learningCurveTimes,
         (IF splitIndex < Len(learningCurveTimes) THEN splitIndex
          ELSE Len(learningCurveTimes)) + 1,
         Len(learningCurveTimes))
learningCurveResult == tTestIndependent(firstHalfTimes, secondHalfTimes)

\* timeUser1 !== timeUser2 && timeUser1 && timeUser2
readersCompared == timeUser1 # timeUser2 /\ timeUser1 # "" /\ timeUser2 # ""

\* <<user1PairedTimes, user2PairedTimes>> of the paired reader comparison
pairedTimes ==
  IF ~readersCompared THEN <<<<>>, <<>>>>
  ELSE IF timeUser1 # ALL_READERS_ID /\ timeUser2 # ALL_READERS_ID
  THEN LET user1Evals == filteredEvalsOf(timeUser1)
           user2Evals == filteredEvalsOf(timeUser2)
           commonKeys == SelectSeq(filteredKeysOf(timeUser1), LAMBDA k :
                           /\ k \in DOMAIN user2Evals
                           /\ DIsPos(user1Evals[k].readingTime)
                           /\ DIsPos(user2Evals[k].readingTime))
       IN  <<timesAt(user1Evals, commonKeys), timesAt(user2Evals, commonKeys)>>
  ELSE LET specificUserId == IF timeUser1 = ALL_READERS_ID THEN timeUser2
                             ELSE timeUser1
           specificEvals == filteredEvalsOf(specificUserId)
           caseKeys == SelectSeq(filteredKeysOf(specificUserId), LAMBDA k :
                         DIsPos(specificEvals[k].readingTime))
           specificUserTimes == timesAt(specificEvals, caseKeys)
           allReadersAvgTimesForCases ==
             [i \in 1..Len(caseKeys) |-> allReadersAvgTime(caseKeys[i])]
       IN  IF timeUser1 = ALL_READERS_ID
           THEN <<allReadersAvgTimesForCases, specificUserTimes>>
           ELSE <<specificUserTimes, allReadersAvgTimesForCases>>

user1PairedTimes == pairedTimes[1]
user2PairedTimes == pairedTimes[2]
pairedTestResult ==
  IF ~readersCompared THEN Null
  ELSE tTestPaired(user1PairedTimes, user2PairedTimes)

\* the positive reading times of the readers of one experience group, reader
\* after reader, the times of a reader in the order of Object.values
RECURSIVE groupTimesFrom(_, _)
groupTimesFrom(group, i) ==
  IF i > Len(allUsers) THEN <<>>
  ELSE (IF allUsers[i].experience = group
        THEN positiveTimes(allUsers[i].id) ELSE <<>>)
       \o groupTimesFrom(group, i + 1)

exp1Times == groupTimesFrom(expGroup1, 1)
exp2Times == groupTimesFrom(expGroup2, 1)
experienceTestResult == tTestIndependent(exp1Times, exp2Times)

\* the positive filtered reading times of every reader, reader after reader
\* in the order Object.values(allEvaluations) visits them
RECURSIVE allTimesFrom(_)
allTimesFrom(i) ==
  IF i > Len(evaluationKeys) THEN <<>>
  ELSE positiveTimes(evaluationKeys[i]) \o allTimesFrom(i + 1)

allTimes == allTimesFrom(1)
avgTimePerCase == mean(allTimes)
totalTime == sumFrom(allTimes, DZero, 1)

\* the value of the timeAnalysisData memo
timeAnalysisData ==
  [avgTimePerCase |-> avgTimePerCase, totalTime |-> totalTime,
   learningCurveResult |-> learningCurveResult,
   firstHalfTimes |-> firstHalfTimes, secondHalfTimes |-> secondHalfTimes,
   pairedTestResult |-> pairedTestResult,
   user1PairedTimes |-> user1PairedTimes, user2PairedTimes |-> user2PairedTimes,
   experienceTestResult |-> experienceTestResult,
   exp1Times |-> exp1Times, exp2Times |-> exp2Times]

(* ------------------------------ inputs --------------------------------- *)

Reader1 == [id |-> "r1", experience |-> "Principiante"]
Reader2 == [id |-> "r2", experience |-> "Experto"]

Case(n, positive) ==
  [caseNumber |-> n, ap |-> IF positive THEN "T2" ELSE "T1",
   isCVMIPositive |-> positive]

\* case lists as the upload produces them (ascending case numbers 1..n)
CaseLists(maxN) ==
  UNION {{[i \in 1..n |-> Case(i, f[i])] : f \in [1..n -> BOOLEAN]} : n \in 0..maxN}

ScoredEval(v) == [DEFAULT_EVAL EXCEPT !.viradsFinal = v]

\* a reader's evaluations: any subset of the case numbers, any final score
EvalMaps(maxN) ==
  UNION {[S -> {ScoredEval(v) : v \in 0..MaxScore}] : S \in SUBSET (1..maxN)}

\* values typed into the prevalence field (percent / 100)
PrevalenceInputs == {RZero, <<3, 10>>, ROne}

\* positions of the two percentage sliders used by the model
PercentageInputs == {50, 100}

\* an evaluation with final score v and reading time t (seconds)
TimedEval(v, t) == [DEFAULT_EVAL EXCEPT !.viradsFinal = v, !.readingTime = t]

\* reading times of the model: 1 s, 2 s and the number 0.1
ReadingTimes == {DFromInt(1), DFromInt(2), DRatio(1, 10)}

\* the case numbers of the first n cases of the time analysis: -1, which is
\* no array index as the key of an object, then 0, 1, ...
TimedCaseNumbers(n) == (0 - 1)..(n - 2)

\* a reader who has timed the first n cases, with any of the reading times
TimedMaps(maxN) ==
  UNION {[TimedCaseNumbers(n) -> {TimedEval(MaxScore, t) : t \in ReadingTimes}] :
           n \in 0..maxN}

\* a reader who has spent the same time, possibly none, on each of the first
\* n cases
SteadyMaps(maxN) ==
  {[k \in TimedCaseNumbers(n) |-> TimedEval(MaxScore, t)] :
     n \in 0..maxN, t \in ReadingTimes \cup {DZero}}

(* ----------------------------- operations ------------------------------ *)

\* the dependency lists of the analysisData and timeAnalysisData memos
analysisDataDeps ==
  {"cutoff", "cases", "allEvaluations", "allUsers", "prevalence",
   "comparisonPercentage"}
timeAnalysisDataDeps ==
  {"allEvaluations", "allUsers", "timeUser1", "timeUser2",
   "comparisonPercentage", "expGroup1", "expGroup2",
   "timeAnalysisCasePercentage"}

\* the props and state the timeAnalysisData memo reads
timeAnalysisInputs ==
  [allEvaluations |-> allEvaluations, allUsers |-> allUsers,
   timeUser1 |-> timeUser1, timeUser2 |-> timeUser2,
   comparisonPercentage |-> comparisonPercentage,
   expGroup1 |-> expGroup1, expGroup2 |-> expGroup2,
   timeAnalysisCasePercentage |-> timeAnalysisCasePercentage]

\* the two memos on the first render of AnalysisScreen.  A memo is kept as
\* the inputs its callback last ran on: its value is the callback's result
\* on them.
firstMemos ==
  [analysisData |-> analysisInputs, timeAnalysisData |-> timeAnalysisInputs]

\* useMemo on the render after the state named changed: a memo is computed
\* again when the state is in its dependency list and is kept otherwise
useMemos(changed) ==
  analysisMemo' =
    [analysisData |-> IF changed \in analysisDataDeps THEN analysisInputs'
                      ELSE analysisMemo.analysisData,
     timeAnalysisData |-> IF changed \in timeAnalysisDataDeps
                          THEN timeAnalysisInputs'
                          ELSE analysisMemo.timeAnalysisData]

\* renderView: what App shows
shownView(loaded, user, v) ==
  IF ~loaded THEN "loading" ELSE IF user = Null THEN "login" ELSE v

setCutoff(c) ==
  /\ shownView(isLoaded, currentUser, view) = "analysis"
  /\ c # cutoff
  /\ cutoff' = c
  /\ UNCHANGED <<prevalence, comparisonPercentage, timeAnalysisCasePercentage,
                 timeUser1, timeUser2, expGroup1, expGroup2,
                 appVars, screenVars>>
  /\ useMemos("cutoff")

setPrevalence(p) ==
  /\ shownView(isLoaded, currentUser, view) = "analysis"
  /\ p # prevalence
  /\ prevalence' = p
  /\ UNCHANGED <<cutoff, comparisonPercentage, timeAnalysisCasePercentage,
                 timeUser1, timeUser2, expGroup1, expGroup2,
                 appVars, screenVars>>
  /\ useMemos("prevalence")

setComparisonPercentage(k) ==
  /\ shownView(isLoaded, currentUser, view) = "analysis"
  /\ k # comparisonPercentage
  /\ comparisonPercentage' = k
  /\ UNCHANGED <<cutoff, prevalence, timeAnalysisCasePercentage,
                 timeUser1, timeUser2, expGroup1, expGroup2,
                 appVars, screenVars>>
  /\ useMemos("comparisonPercentage")

setTimeAnalysisCasePercentage(k) ==
  /\ shownView(isLoaded, currentUser, view) = "analysis"
  /\ k # timeAnalysisCasePercentage
  /\ timeAnalysisCasePercentage' = k
  /\ UNCHANGED <<cutoff, prevalence, comparisonPercentage,
                 timeUser1, timeUser2, expGroup1, expGroup2,
                 appVars, screenVars>>
  /\ useMemos("timeAnalysisCasePercentage")

\* the selects of the time analysis
setTimeUser1(id) ==
  /\ shownView(isLoaded, currentUser, view) = "analysis"
  /\ id # timeUser1
  /\ timeUser1' = id
  /\ UNCHANGED <<cutoff, prevalence, comparisonPercentage,
                 timeAnalysisCasePercentage, timeUser2, expGroup1, expGroup2,
                 appVars, screenVars>>
  /\ useMemos("timeUser1")

setTimeUser2(id) ==
  /\ shownView(isLoaded, currentUser, view) = "analysis"
  /\ id # timeUser2
  /\ timeUser2' = id
  /\ UNCHANGED <<cutoff, prevalence, comparisonPercentage,
                 timeAnalysisCasePercentage, timeUser1, expGroup1, expGroup2,
                 appVars, screenVars>>
  /\ useMemos("timeUser2")

setExpGroup1(level) ==
  /\ shownView(isLoaded, currentUser, view) = "analysis"
  /\ level # expGroup1
  /\ expGroup1' = level
  /\ UNCHANGED <<cutoff, prevalence, comparisonPercentage,
                 timeAnalysisCasePercentage, timeUser1, timeUser2, expGroup2,
                 appVars, screenVars>>
  /\ useMemos("expGroup1")

setExpGroup2(level) ==
  /\ shownView(isLoaded, currentUser, view) = "analysis"
  /\ level # expGroup2
  /\ expGroup2' = level
  /\ UNCHANGED <<cutoff, prevalence, comparisonPercentage,
                 timeAnalysisCasePercentage, timeUser1, timeUser2, expGroup1,
                 appVars, screenVars>>
  /\ useMemos("expGroup2")

\* the options the four selects offer
timeUser1Options ==
  {ALL_READERS_ID} \cup {allUsers[i].id : i \in 1..Len(allUsers)}
timeUser2Options ==
  (IF timeUser1 # ALL_READERS_ID THEN {ALL_READERS_ID} ELSE {})
  \cup ({allUsers[i].id : i \in 1..Len(allUsers)} \ {timeUser1})
expGroup1Options == {experienceLevels[i] : i \in 1..Len(experienceLevels)}
expGroup2Options == expGroup1Options \ {expGroup1}

(* --------------------------------- App --------------------------------- *)

\* the session as the save effect writes it
stateToSave ==
  [allUsers |-> allUsers, cases |-> cases, allEvaluations |-> allEvaluations,
   evaluationKeys |-> evaluationKeys,
   evaluationCaseKeys |-> evaluationCaseKeys,
   allSurveyResponses |-> allSurveyResponses]

\* the state a handler of App works on
appState ==
  [view |-> view, currentUser |-> currentUser, allUsers |-> allUsers,
   cases |-> cases, allEvaluations |-> allEvaluations,
   evaluationKeys |-> evaluationKeys,
   evaluationCaseKeys |-> evaluationCaseKeys,
   allSurveyResponses |-> allSurveyResponses]

\* the state of App after construction (the useState initial values)
InitialAppState ==
  [view |-> "login", currentUser |-> Null, allUsers |-> <<>>, cases |-> <<>>,
   allEvaluations |-> [u \in {} |-> NoEvaluations],
   evaluationKeys |-> <<>>,
   evaluationCaseKeys |-> [u \in {} |-> <<>>],
   allSurveyResponses |-> [u \in {} |-> Null]]

\* the keys of an object, in the order of their insertion, after the
\* updates of a handler: the keys kept stay in their order and the key the
\* handler has added (at most one) comes last
keysAfter(keys, object) ==
  LET kept == SelectSeq(keys, LAMBDA k : k \in DOMAIN object)
      added == DOMAIN object \ {keys[i] : i \in 1..Len(keys)}
  IN  IF added = {} THEN kept ELSE Append(kept, CHOOSE k \in added : TRUE)

\* the keys of the evaluations of every reader, in the order of their
\* insertion, after the updates of a handler
caseKeysAfter(keys, evaluations) ==
  [u \in DOMAIN evaluations |->
     keysAfter(IF u \in DOMAIN keys THEN keys[u] ELSE <<>>, evaluations[u])]

\* the part of the state of App that the save effect writes; the JSON text
\* keeps the order of the keys of allEvaluations and of its values
sessionOf(app) ==
  [allUsers |-> app.allUsers, cases |-> app.cases,
   allEvaluations |-> app.allEvaluations,
   evaluationKeys |-> keysAfter(app.evaluationKeys, app.allEvaluations),
   evaluationCaseKeys |->
     caseKeysAfter(app.evaluationCaseKeys, app.allEvaluations),
   allSurveyResponses |-> app.allSurveyResponses]

\* a stored item that JSON.parse rejects
Corrupt == [corrupt |-> TRUE]

\* a save effect that writes whether or not the session has been loaded
saveEffectUnguarded(loaded, stored, state, thrown) ==
  [item |-> IF thrown THEN stored ELSE state, error |-> thrown]

\* the save effect of a render that saw isLoaded = loaded and the session
\* state: the stored item after it (stored is the item before it) and
\* whether the effect has logged an error.  thrown: localStorage.setItem
\* throws (the quota of the storage is exceeded); the effect catches the
\* exception and logs it, and the item stays as it was.
saveEffect(loaded, stored, state, thrown) ==
  [item |-> IF ~loaded \/ thrown THEN stored ELSE state,
   error |-> loaded /\ thrown]

\* handleDataUpload that keeps the evaluations
handleDataUploadKeepingEvaluations(app, uploadedCases) ==
  [app EXCEPT !.cases = uploadedCases,
              !.allSurveyResponses = [u \in {} |-> Null],
              !.view = "evaluation"]

\* the state of App after handleDataUpload(uploadedCases)
handleDataUpload(app, uploadedCases) ==
  [app EXCEPT !.cases = uploadedCases,
              !.allEvaluations = [u \in {} |-> NoEvaluations],
              !.allSurveyResponses = [u \in {} |-> Null],
              !.view = "evaluation"]

\* handleEvaluationUpdate that replaces the reader's evaluations by the one
\* passed
handleEvaluationUpdateAlone(prev, user, caseNumber, evaluation) ==
  IF user = Null THEN prev
  ELSE [u \in DOMAIN prev \cup {user.id} |->
          IF u = user.id THEN [k \in {caseNumber} |-> evaluation] ELSE prev[u]]

\* allEvaluations after handleEvaluationUpdate(caseNumber, evaluation), prev
\* being allEvaluations before it and user the current user
handleEvaluationUpdate(prev, user, caseNumber, evaluation) ==
  IF user = Null THEN prev
  ELSE LET mine == userEvalsOf(prev, user)
       IN  [u \in DOMAIN prev \cup {user.id} |->
              IF u = user.id
              THEN [k \in DOMAIN mine \cup {caseNumber} |->
                      IF k = caseNumber THEN evaluation ELSE mine[k]]
              ELSE prev[u]]

\* the state of App after handleFinishEvaluations()
handleFinishEvaluations(app) ==
  [app EXCEPT !.view =
     IF app.currentUser # Null
        /\ app.currentUser.id \notin DOMAIN app.allSurveyResponses
     THEN "survey" ELSE "analysis"]

\* allSurveyResponses after handleSurveyUpdate(surveyData)
handleSurveyUpdate(prev, user, surveyData) ==
  IF user = Null THEN prev
  ELSE LET currentUserSurvey == IF user.id \in DOMAIN prev THEN prev[user.id]
                                ELSE <<>>
           merged == [f \in DOMAIN currentUserSurvey \cup DOMAIN surveyData |->
                        IF f \in DOMAIN surveyData THEN surveyData[f]
                        ELSE currentUserSurvey[f]]
       IN  [u \in DOMAIN prev \cup {user.id} |->
              IF u = user.id THEN merged ELSE prev[u]]

(* ----------------------------- SurveyScreen ---------------------------- *)

DEFAULT_SURVEY_STATE ==
  [theoreticalClarity |-> 0, practicalApplication |-> 0, theoryEssential |-> 0,
   t2CriteriaEase |-> 0, dwiCriteriaEase |-> 0, dceCriteriaEase |-> 0,
   viradsIntuitive |-> 0, feelMoreConfident |-> 0, mostDifficultAspect |-> ""]

\* isComplete(): every answer but the open one is above 0
isComplete(surveyData) ==
  \A key \in DOMAIN surveyData :
    IF key = "mostDifficultAspect" THEN TRUE ELSE surveyData[key] > 0

\* SurveyScreen after its first render and effects: the update effect has
\* run once and, being the initial mount, has called nothing
surveyMount(initialData) ==
  [surveyData |-> IF initialData = Null THEN DEFAULT_SURVEY_STATE
                  ELSE initialData,
   effectPending |-> FALSE, onUpdateCalls |-> 0]

(* --------------------------- EvaluationScreen -------------------------- *)

\* the keys of the nine ratings of an evaluation
RatingFields ==
  {"imageQuality", "t2", "difusion", "edc", "viradsFinal", "t2Confidence",
   "difusionConfidence", "edcConfidence", "viradsFinalConfidence"}

\* the state of EvaluationScreen after construction
InitialEvaluationScreen ==
  [currentIndex |-> 0, currentEval |-> DEFAULT_EVAL, timerIsActive |-> FALSE,
   sessionTime |-> 0]

\* the effect on [currentIndex, cases, evaluations, currentCase]: the
\* stored evaluation of the current case is shown and the timer is reset
evaluationEffect(screen, cs, evaluations) ==
  IF screen.currentIndex >= Len(cs) THEN screen
  ELSE LET caseNumber == cs[screen.currentIndex + 1].caseNumber
       IN  [screen EXCEPT
              !.currentEval = IF caseNumber \in DOMAIN evaluations
                              THEN evaluations[caseNumber] ELSE DEFAULT_EVAL,
              !.timerIsActive = FALSE,
              !.sessionTime = 0]

\* (currentEval.readingTime || 0) + sessionTime
totalTimeForCase(screen) ==
  DAdd(screen.currentEval.readingTime, DFromInt(screen.sessionTime))

isEvaluationComplete(currentEval) == \A f \in RatingFields : currentEval[f] > 0

\* the Next button that does not look at the timer
isNextButtonEnabledTimerRunning(screen) ==
  /\ DIsPos(totalTimeForCase(screen))
  /\ isEvaluationComplete(screen.currentEval)

isNextButtonEnabled(screen) ==
  /\ ~screen.timerIsActive
  /\ DIsPos(totalTimeForCase(screen))
  /\ isEvaluationComplete(screen.currentEval)

\* totalCases > 0 && evaluatedCasesCount === totalCases
allCasesEvaluated(cs, evaluations) ==
  Len(cs) > 0 /\ evaluatedCasesCount(evaluations) = Len(cs)

(* ----------------------------- UploadScreen ---------------------------- *)

ALL_STAGES == CVMI_STAGES \cup CVNMI_STAGES

\* c put into a list sorted by case number, after the cases that do not
\* come after it (Array.prototype.sort is stable)
insertCase(sorted, c) ==
  LET k == Cardinality({i \in 1..Len(sorted) :
                          sorted[i].caseNumber <= c.caseNumber})
  IN  SubSeq(sorted, 1, k) \o <<c>> \o SubSeq(sorted, k + 1, Len(sorted))

\* parsedCases.sort((a, b) => a.caseNumber - b.caseNumber) from element i on
RECURSIVE sortCasesFrom(_, _, _)
sortCasesFrom(list, sorted, i) ==
  IF i > Len(list) THEN sorted
  ELSE sortCasesFrom(list, insertCase(sorted, list[i]), i + 1)

\* A text of a sheet is the sequence of its UTF-16 code units.  The code
\* units String.prototype.trim takes off: the white space (TAB, VT, FF, SP,
\* NBSP, ZWNBSP and the space separators U+1680, U+2000 to U+200A, U+202F,
\* U+205F, U+3000) and the line terminators (LF, CR, LS, PS)
Whitespace ==
  {9, 10, 11, 12, 13, 32, 160, 5760, 8232, 8233, 8239, 8287, 12288, 65279}
    \cup (8192..8202)

RECURSIVE trimStart(_)
trimStart(s) ==
  IF Len(s) > 0 /\ s[1] \in Whitespace
  THEN trimStart(SubSeq(s, 2, Len(s))) ELSE s

RECURSIVE trimEnd(_)
trimEnd(s) ==
  IF Len(s) > 0 /\ s[Len(s)] \in Whitespace
  THEN trimEnd(SubSeq(s, 1, Len(s) - 1)) ELSE s

trim(s) == trimEnd(trimStart(s))

\* the code unit of character i of a string of stage letters, decimal
\* digits and "-"
charCodeAt(s, i) ==
  LET c == SubSeq(s, i, i)
  IN  CASE c = "T" -> 84
        [] c = "a" -> 97
        [] c = "i" -> 105
        [] c = "s" -> 115
        [] c = "-" -> 45
        [] OTHER -> 48 + (CHOOSE d \in 0..9 : ToString(d) = c)

\* the code units of such a string
charCodes(s) == [i \in 1..Len(s) |-> charCodeAt(s, i)]

\* STAGES.includes(ap) for the text ap
includes(STAGES, ap) == \E stage \in STAGES : charCodes(stage) = ap

\* the cells of a row as sheet_to_json gives them: a number, a text, or
\* nothing under that heading
NumberCell(n) == [type |-> "number", value |-> n]
TextCell(s) == [type |-> "string", value |-> s]
NoCell == [type |-> "undefined"]

\* row['AP']?.toString().trim(); a row without AP gives undefined, which
\* the checks that follow treat as they treat the empty text, so it is the
\* empty text here
apOf(row) ==
  IF row.AP.type = "undefined" THEN <<>>
  ELSE IF row.AP.type = "number" THEN trim(charCodes(ToString(row.AP.value)))
  ELSE trim(row.AP.value)

\* the two checks of a row pass
rowAccepted(row) ==
  /\ row.caseNumber.type = "number"
  /\ apOf(row) # <<>>
  /\ includes(ALL_STAGES, apOf(row))

\* the sheet is not empty and reader.onload rejects none of its rows
validRows(rows) ==
  Len(rows) > 0 /\ \A i \in 1..Len(rows) : rowAccepted(rows[i])

\* the cases reader.onload parses from the rows of a sheet, sorted; ap is
\* the stage name the text spells
parsedCases(rows) ==
  sortCasesFrom([i \in 1..Len(rows) |->
                   [caseNumber |-> rows[i].caseNumber.value,
                    ap |-> CHOOSE stage \in ALL_STAGES :
                             charCodes(stage) = apOf(rows[i]),
                    isCVMIPositive |-> includes(CVMI_STAGES, apOf(rows[i]))]],
                <<>>, 1)

(* ------------------------------ rendering ------------------------------ *)

\* AnalysisScreen is mounted for the state app of App, or is not shown
renderAnalysis(app, shown) ==
  LET selected1 == IF shown THEN initialTimeUser1(app.currentUser) ELSE ""
      selected2 == IF shown THEN initialTimeUser2(app.allUsers, app.currentUser)
                   ELSE ""
  IN  /\ cutoff' = InitialCutoff
      /\ comparisonPercentage' = InitialComparisonPercentage
      /\ timeAnalysisCasePercentage' = InitialTimeAnalysisCasePercentage
      /\ prevalence' = IF shown THEN samplePrevalence(app.cases) ELSE RZero
      /\ timeUser1' = selected1
      /\ timeUser2' = selected2
      /\ expGroup1' = InitialExpGroup1
      /\ expGroup2' = InitialExpGroup2
      /\ analysisMemo' =
           IF ~shown THEN Null
           ELSE [analysisData |->
                   [cutoff |-> InitialCutoff, cases |-> app.cases,
                    allEvaluations |-> app.allEvaluations,
                    allUsers |-> app.allUsers,
                    prevalence |-> samplePrevalence(app.cases),
                    comparisonPercentage |-> InitialComparisonPercentage],
                 timeAnalysisData |->
                   [allEvaluations |-> app.allEvaluations,
                    allUsers |-> app.allUsers,
                    timeUser1 |-> selected1, timeUser2 |-> selected2,
                    comparisonPercentage |-> InitialComparisonPercentage,
                    expGroup1 |-> InitialExpGroup1,
                    expGroup2 |-> InitialExpGroup2,
                    timeAnalysisCasePercentage |->
                      InitialTimeAnalysisCasePercentage]]

\* App renders with the state app that a handler has set, and the effects
\* of that render run.  stored is the item in local storage after the
\* handler; evalLocal and surveyLocal are the states the handler has left
\* EvaluationScreen and SurveyScreen in (Null: not mounted before).
\*   - the save effect runs when the handler has set the users, the
\*     cases, the evaluations or the surveys (sessionSet): the value set
\*     is a new object, equal to the one of before or not;
\*   - a screen that is no longer shown loses its state, the screen shown
\*     is mounted if it was not;
\*   - the FileReaders of an UploadScreen that is no longer shown go on
\*     reading, their UploadScreen being unmounted;
\*   - EvaluationScreen gets a new evaluations object, so its effect runs;
\*   - SurveyScreen gets a new onUpdate function, so its effect is due.
render(app, sessionSet, stored, evalLocal, surveyLocal) ==
  LET shown == shownView(TRUE, app.currentUser, app.view)
      user == app.currentUser
  IN  /\ view' = app.view
      /\ currentUser' = app.currentUser
      /\ allUsers' = app.allUsers
      /\ cases' = app.cases
      /\ allEvaluations' = app.allEvaluations
      /\ evaluationKeys' = keysAfter(app.evaluationKeys, app.allEvaluations)
      /\ evaluationCaseKeys' =
           caseKeysAfter(app.evaluationCaseKeys, app.allEvaluations)
      /\ allSurveyResponses' = app.allSurveyResponses
      /\ isLoaded' = TRUE
      /\ LET saved == IF sessionSet
                       THEN saveEffect(TRUE, stored, sessionOf(app), storageFull)
                       ELSE [item |-> stored, error |-> saveFailed]
         IN  localStorage' = saved.item /\ saveFailed' = saved.error
      /\ saveEffectPending' = FALSE
      /\ storageFull' = storageFull
      /\ evaluationScreen' =
           IF shown # "evaluation" THEN Null
           ELSE evaluationEffect(IF evalLocal = Null
                                 THEN InitialEvaluationScreen ELSE evalLocal,
                                 app.cases, userEvalsOf(app.allEvaluations, user))
      /\ uploadScreen' =
           IF shown # "upload" THEN Null
           ELSE IF uploadScreen = Null
           THEN [isLoading |-> FALSE, error |-> FALSE, fileName |-> Null]
           ELSE uploadScreen
      /\ fileReaders' =
           IF shown # "upload"
           THEN [i \in 1..Len(fileReaders) |->
                   [fileReaders[i] EXCEPT !.screenMounted = FALSE]]
           ELSE fileReaders
      /\ surveyScreen' =
           IF shown # "survey" THEN Null
           ELSE IF surveyLocal = Null
           THEN surveyMount(IF user.id \in DOMAIN app.allSurveyResponses
                            THEN app.allSurveyResponses[user.id] ELSE Null)
           ELSE [surveyLocal EXCEPT !.effectPending = TRUE]
      /\ renderAnalysis(app, shown = "analysis")

(* ------------------------------- handlers ------------------------------ *)

\* the save effect of the last render has run
saveEffectDone == ~saveEffectPending

\* App shows the screen v and the effects of its last render have run
shows(v) == shownView(isLoaded, currentUser, view) = v /\ saveEffectDone

\* the page is loaded again: the state of the components starts over, the
\* timers are gone, local storage stays
reload ==
  /\ isLoaded
  /\ view' = InitialAppState.view
  /\ currentUser' = InitialAppState.currentUser
  /\ allUsers' = InitialAppState.allUsers
  /\ cases' = InitialAppState.cases
  /\ allEvaluations' = InitialAppState.allEvaluations
  /\ evaluationKeys' = InitialAppState.evaluationKeys
  /\ evaluationCaseKeys' = InitialAppState.evaluationCaseKeys
  /\ allSurveyResponses' = InitialAppState.allSurveyResponses
  /\ isLoaded' = FALSE
  /\ evaluationScreen' = Null /\ uploadScreen' = Null /\ surveyScreen' = Null
  /\ fileReaders' = <<>>
  /\ pendingUploads' = <<>>
  /\ renderAnalysis(InitialAppState, FALSE)
  /\ saveFailed' = FALSE
  /\ saveEffectPending' = FALSE
  /\ UNCHANGED <<localStorage, storageFull>>

\* the effects of the first render: the load effect sets the saved session
\* and isLoaded, then the save effect of that render runs (it saw
\* isLoaded = false and the initial state).  isLoaded being set, the save
\* effect of the next render is due.
loadEffect ==
  /\ ~isLoaded
  /\ LET savedState == localStorage
         afterLoad == IF savedState = Corrupt THEN Null ELSE localStorage
     IN  /\ IF savedState # Null /\ savedState # Corrupt
            THEN /\ allUsers' = savedState.allUsers
                 /\ cases' = savedState.cases
                 /\ allEvaluations' = savedState.allEvaluations
                 /\ evaluationKeys' = savedState.evaluationKeys
                 /\ evaluationCaseKeys' = savedState.evaluationCaseKeys
                 /\ allSurveyResponses' = savedState.allSurveyResponses
            ELSE UNCHANGED <<allUsers, cases, allEvaluations, evaluationKeys,
                             evaluationCaseKeys, allSurveyResponses>>
         /\ isLoaded' = TRUE
         /\ LET saved == saveEffect(isLoaded, afterLoad, stateToSave, storageFull)
            IN  localStorage' = saved.item /\ saveFailed' = saved.error
         /\ saveEffectPending' = TRUE
  /\ UNCHANGED <<view, currentUser, storageFull, analysisVars, screenVars>>

\* the save effect of the render that follows the load
saveAfterLoad ==
  /\ isLoaded
  /\ ~saveEffectDone
  /\ LET saved == saveEffect(isLoaded, localStorage, stateToSave, storageFull)
     IN  localStorage' = saved.item /\ saveFailed' = saved.error
  /\ saveEffectPending' = FALSE
  /\ UNCHANGED <<cases, allUsers, allEvaluations, evaluationKeys,
                 evaluationCaseKeys, view, currentUser, allSurveyResponses,
                 isLoaded, storageFull, analysisVars, screenVars>>

\* the storage of the origin fills up, or space is freed in it, outside the
\* application: localStorage.setItem throws while the quota is exceeded
storageChange(full) ==
  /\ isLoaded /\ saveEffectDone
  /\ full # storageFull
  /\ storageFull' = full
  /\ UNCHANGED <<cases, allUsers, allEvaluations, evaluationKeys,
                 evaluationCaseKeys, view, currentUser, allSurveyResponses,
                 isLoaded, localStorage, saveFailed, saveEffectPending,
                 analysisVars, screenVars>>

handleUserSelect(user) ==
  /\ shows("login")
  /\ \E i \in 1..Len(allUsers) : allUsers[i] = user
  /\ render([appState EXCEPT !.currentUser = user,
                             !.view = IF Len(cases) = 0 THEN "upload"
                                      ELSE "evaluation"],
            FALSE, localStorage, Null, Null)
  /\ UNCHANGED pendingUploads

\* newUser is userData with the identifier crypto.randomUUID() returns
handleUserCreate(newUser) ==
  /\ shows("login")
  /\ \A i \in 1..Len(allUsers) : allUsers[i].id # newUser.id
  /\ render([appState EXCEPT !.allUsers = Append(allUsers, newUser),
                             !.currentUser = newUser,
                             !.view = IF Len(cases) = 0 THEN "upload"
                                      ELSE "evaluation"],
            TRUE, localStorage, Null, Null)
  /\ UNCHANGED pendingUploads

\* the state of UploadScreen after a file could not be read or parsed
uploadFailed == [isLoading |-> FALSE, error |-> TRUE, fileName |-> Null]

\* handleFile(file), up to reader.readAsArrayBuffer(file)
handleFile(file) ==
  /\ shows("upload")
  /\ uploadScreen' = [isLoading |-> TRUE, error |-> FALSE,
                      fileName |-> file.name]
  /\ fileReaders' = Append(fileReaders, [file |-> file, screenMounted |-> TRUE])
  /\ UNCHANGED <<appVars, analysisVars, evaluationScreen, pendingUploads,
                 surveyScreen>>

\* list without its element i
removeAt(list, i) == SubSeq(list, 1, i - 1) \o SubSeq(list, i + 1, Len(list))

\* the state of UploadScreen after a FileReader it has created has set
\* the state failed; the updates of the state of an UploadScreen that is
\* unmounted do nothing, also when another UploadScreen is shown
setUploadState(reader, failed) ==
  IF reader.screenMounted THEN failed ELSE uploadScreen

\* reader.onload of the reader i: the sheet is parsed, and either the
\* timeout is set or the error is shown
readerOnload(i) ==
  /\ isLoaded /\ saveEffectDone
  /\ i \in 1..Len(fileReaders)
  /\ fileReaders' = removeAt(fileReaders, i)
  /\ IF validRows(fileReaders[i].file.rows)
     THEN /\ pendingUploads' =
               Append(pendingUploads, parsedCases(fileReaders[i].file.rows))
          /\ UNCHANGED uploadScreen
     ELSE /\ uploadScreen' = setUploadState(fileReaders[i], uploadFailed)
          /\ UNCHANGED pendingUploads
  /\ UNCHANGED <<appVars, analysisVars, evaluationScreen, surveyScreen>>

\* reader.onerror of the reader i: the file could not be read
readerOnerror(i) ==
  /\ isLoaded /\ saveEffectDone
  /\ i \in 1..Len(fileReaders)
  /\ fileReaders' = removeAt(fileReaders, i)
  /\ uploadScreen' = setUploadState(fileReaders[i], uploadFailed)
  /\ UNCHANGED <<appVars, analysisVars, evaluationScreen, pendingUploads,
                 surveyScreen>>

\* a timeout of reader.onload fires: onUpload(parsedCases)
uploadTimeout ==
  /\ isLoaded /\ saveEffectDone
  /\ pendingUploads # <<>>
  /\ render(handleDataUpload(appState, Head(pendingUploads)), TRUE,
            localStorage, evaluationScreen, Null)
  /\ pendingUploads' = Tail(pendingUploads)

\* EvaluationScreen shows a case
showsCase == shows("evaluation") /\ evaluationScreen.currentIndex < Len(cases)

currentCase == cases[evaluationScreen.currentIndex + 1]

handleEvalChange(field, value) ==
  /\ showsCase
  /\ LET updatedEval == [evaluationScreen.currentEval EXCEPT ![field] = value]
     IN  render([appState EXCEPT !.allEvaluations =
                   handleEvaluationUpdate(allEvaluations, currentUser,
                                          currentCase.caseNumber, updatedEval)],
                currentUser # Null, localStorage,
                [evaluationScreen EXCEPT !.currentEval = updatedEval], Null)
  /\ UNCHANGED pendingUploads

handleStartTimer ==
  /\ showsCase
  /\ ~evaluationScreen.timerIsActive
  /\ evaluationScreen' = [evaluationScreen EXCEPT !.timerIsActive = TRUE]
  /\ UNCHANGED <<appVars, analysisVars, uploadScreen, fileReaders,
                 pendingUploads, surveyScreen>>

\* the interval of the running timer fires: sessionTime becomes the whole
\* seconds since timerStartRef, which the timer effect of the last render
\* has set to that render's sessionTime seconds before it ran; seconds is
\* the number of whole seconds gone by since that effect (1 or more, the
\* interval being of 1000 ms).  The interval runs while EvaluationScreen is
\* mounted and the timer is active.
timerInterval(seconds) ==
  /\ shows("evaluation")
  /\ evaluationScreen.timerIsActive
  /\ evaluationScreen' =
       [evaluationScreen EXCEPT
          !.sessionTime = evaluationScreen.sessionTime + seconds]
  /\ UNCHANGED <<appVars, analysisVars, uploadScreen, fileReaders,
                 pendingUploads, surveyScreen>>

\* currentEval with the time of the session added to its reading time
withSessionTime(screen) ==
  [screen.currentEval EXCEPT !.readingTime = totalTimeForCase(screen)]

handleStopTimer ==
  /\ showsCase
  /\ evaluationScreen.timerIsActive
  /\ LET updatedEval == withSessionTime(evaluationScreen)
     IN  render([appState EXCEPT !.allEvaluations =
                   handleEvaluationUpdate(allEvaluations, currentUser,
                                          currentCase.caseNumber, updatedEval)],
                currentUser # Null, localStorage,
                [evaluationScreen EXCEPT !.currentEval = updatedEval,
                                         !.timerIsActive = FALSE,
                                         !.sessionTime = 0], Null)
  /\ UNCHANGED pendingUploads

handleResetTimer ==
  /\ showsCase
  /\ LET updatedEval == [evaluationScreen.currentEval EXCEPT !.readingTime = DZero]
     IN  render([appState EXCEPT !.allEvaluations =
                   handleEvaluationUpdate(allEvaluations, currentUser,
                                          currentCase.caseNumber, updatedEval)],
                currentUser # Null, localStorage,
                [evaluationScreen EXCEPT !.currentEval = updatedEval,
                                         !.timerIsActive = FALSE,
                                         !.sessionTime = 0], Null)
  /\ UNCHANGED pendingUploads

\* saveAndNavigate(navigationFn): the evaluation of the current case is
\* stored with the time of the session, then App is left in the state
\* navigated and EvaluationScreen at the index given
saveAndNavigate(navigated, index) ==
  render([navigated EXCEPT !.allEvaluations =
            handleEvaluationUpdate(allEvaluations, currentUser,
                                   currentCase.caseNumber,
                                   withSessionTime(evaluationScreen))],
         currentUser # Null, localStorage,
         [evaluationScreen EXCEPT !.currentIndex = index], Null)

\* the Siguiente button
goToNext ==
  /\ showsCase
  /\ evaluationScreen.currentIndex # Len(cases) - 1
  /\ isNextButtonEnabled(evaluationScreen)
  /\ evaluationScreen.currentIndex < Len(cases) - 1
  /\ saveAndNavigate(appState, evaluationScreen.currentIndex + 1)
  /\ UNCHANGED pendingUploads

\* the Anterior button
goToPrev ==
  /\ showsCase
  /\ evaluationScreen.currentIndex > 0
  /\ saveAndNavigate(appState, evaluationScreen.currentIndex - 1)
  /\ UNCHANGED pendingUploads

\* Cambiar de Lector: saveAndNavigate(onChangeUser), onChangeUser being
\* handleReturnToLogin
handleChangeUser ==
  /\ showsCase
  /\ saveAndNavigate([appState EXCEPT !.currentUser = Null, !.view = "login"],
                     evaluationScreen.currentIndex)
  /\ UNCHANGED pendingUploads

\* Analizar Resultados, shown while a case is not evaluated
handleGoToAnalysis ==
  /\ showsCase
  /\ ~allCasesEvaluated(cases, userEvalsOf(allEvaluations, currentUser))
  /\ render([appState EXCEPT !.view = "analysis"], FALSE, localStorage,
            Null, Null)
  /\ UNCHANGED pendingUploads

\* Finalizar y realizar encuesta, shown when every case is evaluated
onFinishAllEvaluations ==
  /\ showsCase
  /\ allCasesEvaluated(cases, userEvalsOf(allEvaluations, currentUser))
  /\ render(handleFinishEvaluations(appState), FALSE, localStorage, Null,
            Null)
  /\ UNCHANGED pendingUploads

handleLikertChange(field, value) ==
  /\ shows("survey")
  /\ surveyScreen' =
       [surveyScreen EXCEPT !.surveyData[field] = value,
                            !.effectPending = TRUE,
                            !.onUpdateCalls = 0]
  /\ UNCHANGED <<appVars, analysisVars, evaluationScreen, uploadScreen,
                 fileReaders, pendingUploads>>

\* the onChange of the textarea of the open question
onMostDifficultAspectChange(text) ==
  /\ shows("survey")
  /\ surveyScreen' =
       [surveyScreen EXCEPT !.surveyData.mostDifficultAspect = text,
                            !.effectPending = TRUE,
                            !.onUpdateCalls = 0]
  /\ UNCHANGED <<appVars, analysisVars, evaluationScreen, uploadScreen,
                 fileReaders, pendingUploads>>

\* the update effect of SurveyScreen runs: onUpdate(surveyData)
surveyEffect ==
  /\ shows("survey")
  /\ surveyScreen.effectPending
  /\ render([appState EXCEPT !.allSurveyResponses =
               handleSurveyUpdate(allSurveyResponses, currentUser,
                                  surveyScreen.surveyData)],
            currentUser # Null, localStorage, Null,
            [surveyScreen EXCEPT !.effectPending = FALSE,
                                 !.onUpdateCalls = surveyScreen.onUpdateCalls + 1])
  /\ UNCHANGED pendingUploads

\* handleSubmit of a complete survey: onSubmit(surveyData)
handleSurveySubmit ==
  /\ shows("survey")
  /\ isComplete(surveyScreen.surveyData)
  /\ render([appState EXCEPT
               !.allSurveyResponses =
                  [u \in DOMAIN allSurveyResponses \cup {currentUser.id} |->
                     IF u = currentUser.id THEN surveyScreen.surveyData
                     ELSE allSurveyResponses[u]],
               !.view = "analysis"],
            currentUser # Null, localStorage, Null, Null)
  /\ UNCHANGED pendingUploads

\* Cambiar de Lector on the analysis screen
handleReturnToLogin ==
  /\ shows("analysis")
  /\ render([appState EXCEPT !.currentUser = Null, !.view = "login"],
            FALSE, localStorage, Null, Null)
  /\ UNCHANGED pendingUploads

handleReset ==
  /\ shows("analysis")
  /\ render(InitialAppState, TRUE, Null, Null, Null)
  /\ UNCHANGED pendingUploads

(* --------------------------- specifications ---------------------------- *)

\* the keys of an object of the readers who got their entries in the order
\* of the list of readers
keysInListOrder(users, object) ==
  LET stored == SelectSeq(users, LAMBDA u : u.id \in DOMAIN object)
  IN  [i \in 1..Len(stored) |-> stored[i].id]

\* the keys of the evaluations of every reader, each reader having stored
\* the cases in the order of the list, which the upload has sorted
keysInCaseOrder(evaluations) ==
  [u \in DOMAIN evaluations |-> SortedKeys(DOMAIN evaluations[u])]

\* the analysis screen just opened by the first reader of a saved session
InitScreen ==
  /\ evaluationKeys = keysInListOrder(allUsers, allEvaluations)
  /\ evaluationCaseKeys = keysInCaseOrder(allEvaluations)
  /\ cutoff = InitialCutoff
  /\ prevalence = samplePrevalence(cases)
  /\ comparisonPercentage = InitialComparisonPercentage
  /\ timeAnalysisCasePercentage = InitialTimeAnalysisCasePercentage
  /\ view = "analysis"
  /\ currentUser = allUsers[1]
  /\ timeUser1 = initialTimeUser1(currentUser)
  /\ timeUser2 = initialTimeUser2(allUsers, currentUser)
  /\ expGroup1 = InitialExpGroup1
  /\ expGroup2 = InitialExpGroup2
  /\ allSurveyResponses = [u \in {} |-> Null]
  /\ isLoaded = TRUE
  /\ localStorage = stateToSave
  /\ saveFailed = FALSE
  /\ saveEffectPending = FALSE
  /\ storageFull = FALSE
  /\ evaluationScreen = Null
  /\ uploadScreen = Null
  /\ fileReaders = <<>>
  /\ pendingUploads = <<>>
  /\ surveyScreen = Null
  /\ analysisMemo = firstMemos

\* statistics of one reader over every case list and evaluations record
InitStats ==
  /\ allUsers = <<Reader1>>
  /\ cases \in CaseLists(MaxCaseNumber)
  /\ allEvaluations \in {[u \in {"r1"} |-> m] : m \in EvalMaps(MaxCaseNumber)}
  /\ InitScreen

NextStats == \E c \in Cutoffs : setCutoff(c)

SpecStats == InitStats /\ [][NextStats]_vars

\* evaluations as the application stores them: only of cases of the list
EvalMapsOf(cs) ==
  UNION {[S -> {ScoredEval(v) : v \in 0..MaxScore}] : S \in SUBSET (1..Len(cs))}

\* the analysis screen as the application shows it: a non-empty case list and
\* two readers, the second with no stored evaluations or with the first case
\* scored
InitAnalysis ==
  /\ allUsers = <<Reader1, Reader2>>
  /\ cases \in CaseLists(MaxCaseNumberA)
  /\ Len(cases) > 0
  /\ allEvaluations \in
       {[u \in {"r1"} |-> m] : m \in EvalMapsOf(cases)}
       \cup {[u \in {"r1", "r2"} |->
                IF u = "r1" THEN m ELSE [k \in {1} |-> ScoredEval(MaxScore)]] :
             m \in EvalMapsOf(cases)}
  /\ InitScreen

NextAnalysis ==
  \/ \E c \in Cutoffs : setCutoff(c)
  \/ \E p \in PrevalenceInputs : setPrevalence(p)
  \/ \E k \in PercentageInputs : setComparisonPercentage(k)
  \/ \E k \in PercentageInputs : setTimeAnalysisCasePercentage(k)

SpecAnalysis == InitAnalysis /\ [][NextAnalysis]_vars

\* the number of the selections given that are not the initial ones of the
\* time analysis
changedSelects(user1, user2, group1, group2) ==
  (IF user1 # initialTimeUser1(currentUser) THEN 1 ELSE 0)
  + (IF user2 # initialTimeUser2(allUsers, currentUser) THEN 1 ELSE 0)
  + (IF group1 # InitialExpGroup1 THEN 1 ELSE 0)
  + (IF group2 # InitialExpGroup2 THEN 1 ELSE 0)

\* the time analysis of two readers of different experience
InitTiming ==
  /\ allUsers = <<Reader1, Reader2>>
  /\ cases = [i \in 1..MaxTimedCases |-> Case(i - 2, i % 2 = 0)]
  /\ allEvaluations \in
       {[u \in {"r1", "r2"} |-> IF u = "r1" THEN m1 ELSE m2] :
          m1 \in TimedMaps(MaxTimedCases), m2 \in SteadyMaps(MaxTimedCases)}
  /\ InitScreen

NextTiming ==
  \/ \E k \in PercentageInputs : setComparisonPercentage(k)
  \/ \E k \in PercentageInputs : setTimeAnalysisCasePercentage(k)
  \/ \E id \in timeUser1Options :
       /\ changedSelects(id, timeUser2, expGroup1, expGroup2) <= MaxChangedSelects
       /\ setTimeUser1(id)
  \/ \E id \in timeUser2Options :
       /\ changedSelects(timeUser1, id, expGroup1, expGroup2) <= MaxChangedSelects
       /\ setTimeUser2(id)
  \/ \E level \in expGroup1Options :
       /\ changedSelects(timeUser1, timeUser2, level, expGroup2) <= MaxChangedSelects
       /\ setExpGroup1(level)
  \/ \E level \in expGroup2Options :
       /\ changedSelects(timeUser1, timeUser2, expGroup1, level) <= MaxChangedSelects
       /\ setExpGroup2(level)

SpecTiming == InitTiming /\ [][NextTiming]_vars

\* AnalysisScreen is not shown
AnalysisUnmounted ==
  /\ cutoff = InitialCutoff
  /\ prevalence = RZero
  /\ comparisonPercentage = InitialComparisonPercentage
  /\ timeAnalysisCasePercentage = InitialTimeAnalysisCasePercentage
  /\ timeUser1 = "" /\ timeUser2 = ""
  /\ expGroup1 = InitialExpGroup1
  /\ expGroup2 = InitialExpGroup2
  /\ analysisMemo = Null

\* the application just after construction, before its first effects
InitLoading ==
  /\ view = InitialAppState.view
  /\ currentUser = InitialAppState.currentUser
  /\ allUsers = InitialAppState.allUsers
  /\ cases = InitialAppState.cases
  /\ allEvaluations = InitialAppState.allEvaluations
  /\ evaluationKeys = InitialAppState.evaluationKeys
  /\ evaluationCaseKeys = InitialAppState.evaluationCaseKeys
  /\ allSurveyResponses = InitialAppState.allSurveyResponses
  /\ isLoaded = FALSE
  /\ evaluationScreen = Null
  /\ uploadScreen = Null
  /\ fileReaders = <<>>
  /\ pendingUploads = <<>>
  /\ surveyScreen = Null
  /\ AnalysisUnmounted

\* a session an earlier visit has saved: the first reader has scored both
\* cases
SavedSession ==
  [allUsers |-> <<Reader1>>, cases |-> <<Case(1, TRUE), Case(2, FALSE)>>,
   allEvaluations |->
     [u \in {"r1"} |-> [k \in {1, 2} |-> ScoredEval(IF k = 1 THEN 2 ELSE MaxScore)]],
   evaluationKeys |-> <<"r1">>,
   evaluationCaseKeys |-> [u \in {"r1"} |-> <<1, 2>>],
   allSurveyResponses |-> [u \in {} |-> Null]]

\* the files handed to the upload screen: a sheet of one case whose stage
\* has white space around it (a blank and a form feed before, a no-break
\* space and an em space after), a sheet of two cases in descending order,
\* a sheet with a stage that does not exist, a sheet whose case number is a
\* text
UploadFiles ==
  {[name |-> "one.xlsx",
    rows |-> <<[caseNumber |-> NumberCell(1),
                AP |-> TextCell(<<32, 12>> \o charCodes("T2") \o <<160, 8195>>)]>>],
   [name |-> "two.xlsx",
    rows |-> <<[caseNumber |-> NumberCell(2), AP |-> TextCell(charCodes("T1"))],
               [caseNumber |-> NumberCell(1), AP |-> TextCell(charCodes("T3"))]>>],
   [name |-> "bad.xlsx",
    rows |-> <<[caseNumber |-> NumberCell(1), AP |-> TextCell(charCodes("T5"))]>>],
   [name |-> "text.xlsx",
    rows |-> <<[caseNumber |-> TextCell(charCodes("1")),
                AP |-> TextCell(charCodes("T2"))]>>]}

\* the application from its start: stored item absent, unreadable or saved
InitApp ==
  /\ InitLoading
  /\ localStorage \in {Null, Corrupt, SavedSession}
  /\ saveFailed = FALSE
  /\ saveEffectPending = FALSE
  /\ storageFull \in BOOLEAN

\* the runs of the survey effect explored after one change of an answer
withinMaxOnUpdateCalls ==
  surveyScreen # Null /\ surveyScreen.onUpdateCalls < MaxOnUpdateCalls

NextApp ==
  \/ loadEffect
  \/ saveAfterLoad
  \/ reload
  \/ \E full \in BOOLEAN : storageChange(full)
  \/ \E user \in {Reader1, Reader2} : handleUserSelect(user)
  \/ \E user \in {Reader1, Reader2} : handleUserCreate(user)
  \/ \E file \in UploadFiles :
       /\ Len(fileReaders) + Len(pendingUploads) < MaxPendingUploads
       /\ handleFile(file)
  \/ \E i \in 1..MaxPendingUploads : readerOnload(i)
  \/ \E i \in 1..MaxPendingUploads : readerOnerror(i)
  \/ uploadTimeout
  \/ handleEvalChange("viradsFinal", MaxScore)
  \/ handleChangeUser
  \/ handleGoToAnalysis
  \/ onFinishAllEvaluations
  \/ handleLikertChange("theoreticalClarity", MaxLikert)
  \/ withinMaxOnUpdateCalls /\ surveyEffect
  \/ handleReturnToLogin
  \/ handleReset

SpecApp == InitApp /\ [][NextApp]_vars

\* an evaluation with every rating but the three the model enters
PreRatedEval ==
  [DEFAULT_EVAL EXCEPT !.t2 = 2, !.difusion = 3, !.edc = 4,
                       !.t2Confidence = 1, !.difusionConfidence = 2,
                       !.edcConfidence = 3]

\* the ratings entered in SpecEvaluation
EnteredFields == {"imageQuality", "viradsFinal", "viradsFinalConfidence"}

\* the first reader on the evaluation screen of two cases, with nothing
\* stored or with the pre-rated evaluations of both cases
InitEvaluation ==
  /\ view = "evaluation"
  /\ currentUser = Reader1
  /\ allUsers = <<Reader1>>
  /\ cases = <<Case(1, TRUE), Case(2, FALSE)>>
  /\ allEvaluations \in
       {[u \in {} |-> NoEvaluations],
        [u \in {"r1"} |-> [k \in {1, 2} |-> PreRatedEval]]}
  /\ allSurveyResponses = [u \in {} |-> Null]
  /\ evaluationKeys = keysInListOrder(allUsers, allEvaluations)
  /\ evaluationCaseKeys = keysInCaseOrder(allEvaluations)
  /\ isLoaded = TRUE
  /\ localStorage = stateToSave
  /\ saveFailed = FALSE
  /\ saveEffectPending = FALSE
  /\ storageFull = FALSE
  /\ evaluationScreen =
       evaluationEffect(InitialEvaluationScreen, cases,
                        userEvalsOf(allEvaluations, currentUser))
  /\ uploadScreen = Null
  /\ fileReaders = <<>>
  /\ pendingUploads = <<>>
  /\ surveyScreen = Null
  /\ AnalysisUnmounted

\* the sessions explored last MaxSeconds seconds at most for a case
withinMaxSeconds(seconds) ==
  /\ evaluationScreen # Null
  /\ ~DIsPos(DSub(DAdd(totalTimeForCase(evaluationScreen), DFromInt(seconds)),
                  DFromInt(MaxSeconds)))

NextEvaluation ==
  \/ \E field \in EnteredFields : \E value \in {0, 1} :
       handleEvalChange(field, value)
  \/ handleStartTimer
  \/ \E seconds \in 1..MaxSeconds :
       withinMaxSeconds(seconds) /\ timerInterval(seconds)
  \/ handleStopTimer
  \/ handleResetTimer
  \/ goToNext
  \/ goToPrev
  \/ handleChangeUser
  \/ handleUserSelect(Reader1)

SpecEvaluation == InitEvaluation /\ [][NextEvaluation]_vars

\* the answers typed into the open question
OpenAnswers == {"", "DWI"}

\* the eight scale questions of the survey
ScaleQuestions == DOMAIN DEFAULT_SURVEY_STATE \ {"mostDifficultAspect"}

\* the first reader has evaluated the only case; no survey is stored, or
\* the one the reader has submitted
InitSurvey ==
  /\ view = "evaluation"
  /\ currentUser = Reader1
  /\ allUsers = <<Reader1>>
  /\ cases = <<Case(1, TRUE)>>
  /\ allEvaluations = [u \in {"r1"} |-> [k \in {1} |-> ScoredEval(MaxScore)]]
  /\ allSurveyResponses \in
       {[u \in {} |-> Null],
        [u \in {"r1"} |->
           [f \in DOMAIN DEFAULT_SURVEY_STATE |->
              IF f \in ScaleQuestions THEN MaxLikert ELSE ""]]}
  /\ evaluationKeys = keysInListOrder(allUsers, allEvaluations)
  /\ evaluationCaseKeys = keysInCaseOrder(allEvaluations)
  /\ isLoaded = TRUE
  /\ localStorage = stateToSave
  /\ saveFailed = FALSE
  /\ saveEffectPending = FALSE
  /\ storageFull = FALSE
  /\ evaluationScreen =
       evaluationEffect(InitialEvaluationScreen, cases,
                        userEvalsOf(allEvaluations, currentUser))
  /\ uploadScreen = Null
  /\ fileReaders = <<>>
  /\ pendingUploads = <<>>
  /\ surveyScreen = Null
  /\ AnalysisUnmounted

NextSurvey ==
  \/ onFinishAllEvaluations
  \/ \E field \in ScaleQuestions : handleLikertChange(field, MaxLikert)
  \/ \E text \in OpenAnswers : onMostDifficultAspectChange(text)
  \/ withinMaxOnUpdateCalls /\ surveyEffect
  \/ handleSurveySubmit
  \/ reload
  \/ loadEffect
  \/ saveAfterLoad
  \/ handleUserSelect(Reader1)

SpecSurvey == InitSurvey /\ [][NextSurvey]_vars


(* ------------------------------ properties ----------------------------- *)

\* a case of the list counts for a reader: it has an evaluation whose final
\* score is not the sentinel
Included(evals, c) ==
  c.caseNumber \in DOMAIN evals /\ evals[c.caseNumber].viradsFinal > 0

\* number of positions of cs that satisfy P
CountCases(cs, P(_)) == Cardinality({i \in 1..Len(cs) : P(cs[i])})

ReaderEvals(i) == userEvalsOf(allEvaluations, allUsers[i])

ExampleCases == <<Case(1, FALSE), Case(2, TRUE), Case(3, TRUE), Case(4, FALSE)>>
ExampleEvals ==
  [k \in 1..4 |-> ScoredEval(CASE k = 1 -> 2 [] k = 2 -> 4 [] k = 3 -> 5 [] k = 4 -> 1)]

\* C1: getMatrixForEvaluations counts every case of the list that has a final
\* score > 0 in exactly one cell: test-positive iff finalScore >= cutoff,
\* condition-positive iff isCVMIPositive; the scenario truths
\* [neg,pos,pos,neg], scores [2,4,5,1], cutoff 3 gives tp=2, fp=0, tn=2, fn=0.
C1_MatrixClassifies ==
  /\ \A i \in 1..Len(allUsers) :
       LET evals == ReaderEvals(i)
           matrix == getMatrixForEvaluations(evals, cases, cutoff)
           TestPos(c) == evals[c.caseNumber].viradsFinal >= cutoff
       IN  /\ matrix.tp = CountCases(cases,
                LAMBDA c : Included(evals, c) /\ TestPos(c) /\ c.isCVMIPositive)
           /\ matrix.fp = CountCases(cases,
                LAMBDA c : Included(evals, c) /\ TestPos(c) /\ ~c.isCVMIPositive)
           /\ matrix.fn = CountCases(cases,
                LAMBDA c : Included(evals, c) /\ ~TestPos(c) /\ c.isCVMIPositive)
           /\ matrix.tn = CountCases(cases,
                LAMBDA c : Included(evals, c) /\ ~TestPos(c) /\ ~c.isCVMIPositive)
  /\ getMatrixForEvaluations(ExampleEvals, ExampleCases, 3)
       = [tp |-> 2, fp |-> 0, tn |-> 2, fn |-> 0]

\* a reader has scored truths [neg,pos,pos] as [2,4,5] and the cutoff is 3:
\* the matrix is tp=2, tn=1
C1_Witness ==
  /\ cases = <<Case(1, FALSE), Case(2, TRUE), Case(3, TRUE)>>
  /\ ReaderEvals(1) = [k \in 1..3 |-> ScoredEval(CASE k = 1 -> 2 [] k = 2 -> 4 [] k = 3 -> 5)]
  /\ cutoff = 3
  /\ getMatrixForEvaluations(ReaderEvals(1), cases, cutoff)
       = [tp |-> 2, fp |-> 0, tn |-> 1, fn |-> 0]

\* C2: the four counts of getMatrixForEvaluations are non-negative integers
\* whose sum is the number of entries of the case list that have an
\* evaluation with a non-zero final score; unevaluated cases, sentinel scores
\* and evaluations of case numbers outside the list add to no cell.
C2_MatrixTotal ==
  \A i \in 1..Len(allUsers) :
    LET evals == ReaderEvals(i)
        matrix == getMatrixForEvaluations(evals, cases, cutoff)
    IN  /\ matrix.tp \in Nat /\ matrix.fp \in Nat
        /\ matrix.tn \in Nat /\ matrix.fn \in Nat
        /\ matrix.tp + matrix.fp + matrix.tn + matrix.fn
             = CountCases(cases, LAMBDA c : Included(evals, c))

\* the list has a scored case, a case with the sentinel score and the reader
\* has an evaluation of a case number that is not in the list
C2_Witness ==
  LET evals == ReaderEvals(1)
      matrix == getMatrixForEvaluations(evals, cases, cutoff)
  IN  /\ \E i \in 1..Len(cases) : Included(evals, cases[i])
      /\ \E i \in 1..Len(cases) :
           /\ cases[i].caseNumber \in DOMAIN evals
           /\ evals[cases[i].caseNumber].viradsFinal = 0
      /\ \E k \in DOMAIN evals : \A i \in 1..Len(cases) : cases[i].caseNumber # k
      /\ matrix.tp + matrix.fp + matrix.tn + matrix.fn = 1

\* a case of the list for which the reader has no evaluation is skipped
C2_WitnessUnevaluated ==
  LET evals == ReaderEvals(1)
      matrix == getMatrixForEvaluations(evals, cases, cutoff)
  IN  /\ \E i \in 1..Len(cases) : cases[i].caseNumber \notin DOMAIN evals
      /\ matrix.tp + matrix.fp + matrix.tn + matrix.fn = 2

\* C3: for the matrix of every reader and every prevalence in [0,1],
\* calculateMetrics returns sensitivity, specificity, PPV and NPV in [0,1].
C3_MetricsInUnit ==
  \A i \in 1..Len(allUsers) : \A p \in PrevalenceInputs \cup {prevalence} :
    LET m == calculateMetrics(getMatrixForEvaluations(ReaderEvals(i), cases, cutoff), p)
    IN  /\ RInUnit(m.sensitivity) /\ RInUnit(m.specificity)
        /\ RInUnit(m.ppv) /\ RInUnit(m.npv)

\* a matrix with a true positive, a false positive and a false negative at a
\* prevalence strictly between 0 and 1: PPV and NPV are proper fractions
C3_Witness ==
  LET matrix == getMatrixForEvaluations(ReaderEvals(1), cases, cutoff)
      m == calculateMetrics(matrix, <<3, 10>>)
  IN  /\ matrix.tp = 1 /\ matrix.fp = 1 /\ matrix.fn = 1
      /\ RIsPos(m.ppv) /\ RLt(m.ppv, ROne)
      /\ m.npv = RZero /\ m.sensitivity = RHalf

\* C4: the value of calculateAUC lies in [0,1].
C4_AucInUnit ==
  \A i \in 1..Len(allUsers) : RInUnit(calculateAUC(ReaderEvals(i), cases))

\* the polyline is integrated and the area is neither 0, 1/2 nor 1
C4_Witness ==
  LET auc == calculateAUC(ReaderEvals(1), cases)
  IN  /\ RIsPos(auc) /\ RLt(auc, ROne) /\ auc # RHalf
      /\ Len(relevantCasesOf(ReaderEvals(1), cases)) = 3

\* both classes occur among the cases calculateAUC keeps
BothClasses(evals, cs) ==
  LET relevantCases == relevantCasesOf(evals, cs)
  IN  /\ \E j \in 1..Len(relevantCases) : relevantCases[j].isCVMIPositive
      /\ \E j \in 1..Len(relevantCases) : ~relevantCases[j].isCVMIPositive

\* C5: the polyline integrated by calculateAUC starts at (0,0), ends at (1,1)
\* and neither rate decreases from one point to the next.
C5_PolylineMonotonic ==
  \A i \in 1..Len(allUsers) :
    LET evals == ReaderEvals(i)
        pts == uniqueSortedPoints(rocPoints(evals, relevantCasesOf(evals, cases)))
    IN  BothClasses(evals, cases) =>
          /\ pts[1] = [fpr |-> RZero, tpr |-> RZero]
          /\ pts[Len(pts)] = [fpr |-> ROne, tpr |-> ROne]
          /\ \A j \in 2..Len(pts) :
               /\ RLe(pts[j - 1].fpr, pts[j].fpr)
               /\ RLe(pts[j - 1].tpr, pts[j].tpr)

\* C6: with at least one positive and one negative evaluated case, every
\* positive scored 5 and every negative scored 1, calculateAUC returns 1.
C6_PerfectSeparation ==
  \A i \in 1..Len(allUsers) :
    LET evals == ReaderEvals(i)
        relevantCases == relevantCasesOf(evals, cases)
    IN  (/\ BothClasses(evals, cases)
         /\ \A j \in 1..Len(relevantCases) :
              evals[relevantCases[j].caseNumber].viradsFinal
                = IF relevantCases[j].isCVMIPositive THEN 5 ELSE 1)
        => calculateAUC(evals, cases) = ROne

\* two positives scored 5 and one negative scored 1
C6_Witness ==
  /\ Len(cases) = 3
  /\ BothClasses(ReaderEvals(1), cases)
  /\ \A j \in 1..3 :
       /\ Included(ReaderEvals(1), cases[j])
       /\ ReaderEvals(1)[j].viradsFinal = IF cases[j].isCVMIPositive THEN 5 ELSE 1
  /\ CountCases(cases, LAMBDA c : c.isCVMIPositive) = 2
  /\ calculateAUC(ReaderEvals(1), cases) = ROne

\* C7: calculateAUC returns exactly 1/2 when the cases with a final score > 0
\* contain no positive or no negative case (also when there is none at all).
C7_DegenerateAuc ==
  \A i \in 1..Len(allUsers) :
    ~BothClasses(ReaderEvals(i), cases) => calculateAUC(ReaderEvals(i), cases) = RHalf

\* the scored cases are two positives with different scores, and a negative
\* case of the list carries only the sentinel
C7_Witness ==
  LET evals == ReaderEvals(1)
      relevantCases == relevantCasesOf(evals, cases)
  IN  /\ Len(cases) = 3 /\ Len(relevantCases) = 2
      /\ \A j \in 1..2 : relevantCases[j].isCVMIPositive
      /\ evals[relevantCases[1].caseNumber].viradsFinal = 1
      /\ evals[relevantCases[2].caseNumber].viradsFinal = 5
      /\ \E j \in 1..3 : ~cases[j].isCVMIPositive /\ cases[j].caseNumber \in DOMAIN evals
      /\ calculateAUC(evals, cases) = RHalf

\* no case is evaluated at all
C7_WitnessEmpty ==
  /\ Len(cases) > 0
  /\ Len(relevantCasesOf(ReaderEvals(1), cases)) = 0
  /\ calculateAUC(ReaderEvals(1), cases) = RHalf

\* C8: every place that decides whether a case counts as evaluated ignores
\* the records whose final score is 0: the per-reader aggregation, the AUC,
\* the progress count and the first-X% selection of the timing analysis.
C8_SentinelExcludedEverywhere ==
  \A i \in 1..Len(allUsers) :
    LET evals == ReaderEvals(i)
        scored == {k \in DOMAIN evals : evals[k].viradsFinal # 0}
        relevantCases == relevantCasesOf(evals, cases)
    IN  /\ SeqRange(evaluatedKeysOf(evals)) = scored
        /\ analysisData.resultsByUser[i].evaluatedCount = Cardinality(scored)
        /\ \A j \in 1..Len(relevantCases) : relevantCases[j].caseNumber \in scored
        /\ evaluatedCasesCount(evals) = Cardinality(scored)
        /\ timeAnalysisCasePercentage < 100 =>
             DOMAIN getFilteredEvaluations(evals, timeAnalysisCasePercentage)
               \subseteq scored

\* C9: zTestForProportions returns p = 1.0 whenever the two proportions are
\* identical, for all counts up to the number of cases.
C9_EqualProportionsGiveOne ==
  \A total1, total2 \in 1..Len(cases) :
    \A success1 \in 0..total1, success2 \in 0..total2 :
      success1 * total2 = success2 * total1 =>
        zTestForProportions(success1, total1, success2, total2) = DOne

\* C10: for every reader whose partial subset of evaluated cases is the full
\* subset, pValueSensitivity and pValueSpecificity are both exactly 1.0.
C10_IdenticalSubsetsGiveOne ==
  \A i \in 1..Len(allUsers) :
    LET evals == ReaderEvals(i)
        r == analysisData.resultsByUser[i]
    IN  partialKeysOf(evals, comparisonPercentage) = evaluatedKeysOf(evals) =>
          r.pValueSensitivity = DOne /\ r.pValueSpecificity = DOne

\* C11 (as stated): a denominator of calculateMetrics is zero only at
\* prevalence 0 or 1 together with a zero sensitivity or specificity, both
\* denominators are positive for every prevalence strictly between 0 and 1,
\* and a zero denominator gives the value 0.
C11_DenominatorsZeroOnlyAtExtremes ==
  \A i \in 1..Len(allUsers) : \A p \in PrevalenceInputs \cup {prevalence} :
    LET matrix == getMatrixForEvaluations(ReaderEvals(i), cases, cutoff)
        l == metricsLocals(matrix, p)
        m == calculateMetrics(matrix, p)
        AtExtreme == /\ p \in {RZero, ROne}
                     /\ (l.sensitivity = RZero \/ l.specificity = RZero)
    IN  /\ RIsZero(l.ppvDenominator) => AtExtreme /\ m.ppv = RZero
        /\ RIsZero(l.npvDenominator) => AtExtreme /\ m.npv = RZero
        /\ (RLt(RZero, p) /\ RLt(p, ROne)) =>
             RIsPos(l.ppvDenominator) /\ RIsPos(l.npvDenominator)

\* C11 (amended): the PPV denominator is zero exactly when
\* (prevalence = 0 or sensitivity = 0) and (specificity = 1 or prevalence = 1),
\* the NPV denominator exactly when (prevalence = 1 or specificity = 0) and
\* (sensitivity = 1 or prevalence = 0); the two are never zero together, no
\* denominator is negative, and a zero denominator gives the value 0.
C11_ZeroDenominators ==
  \A i \in 1..Len(allUsers) : \A p \in PrevalenceInputs \cup {prevalence} :
    LET matrix == getMatrixForEvaluations(ReaderEvals(i), cases, cutoff)
        l == metricsLocals(matrix, p)
        m == calculateMetrics(matrix, p)
    IN  /\ RIsZero(l.ppvDenominator) <=>
             /\ (p = RZero \/ l.sensitivity = RZero)
             /\ (l.specificity = ROne \/ p = ROne)
        /\ RIsZero(l.npvDenominator) <=>
             /\ (p = ROne \/ l.specificity = RZero)
             /\ (l.sensitivity = ROne \/ p = RZero)
        /\ ~(RIsZero(l.ppvDenominator) /\ RIsZero(l.npvDenominator))
        /\ RLe(RZero, l.ppvDenominator) /\ RLe(RZero, l.npvDenominator)
        /\ RIsZero(l.ppvDenominator) => m.ppv = RZero
        /\ RIsZero(l.npvDenominator) => m.npv = RZero

\* a reader who calls a positive and a negative case both negative, at a
\* prevalence strictly between 0 and 1: sensitivity 0, specificity 1, the PPV
\* denominator is zero and the PPV returned is 0
C11_Witness ==
  LET matrix == getMatrixForEvaluations(ReaderEvals(1), cases, cutoff)
      l == metricsLocals(matrix, prevalence)
  IN  /\ matrix.tp = 0 /\ matrix.fp = 0 /\ matrix.fn > 0 /\ matrix.tn > 0
      /\ RLt(RZero, prevalence) /\ RLt(prevalence, ROne)
      /\ RIsZero(l.ppvDenominator)
      /\ calculateMetrics(matrix, prevalence).ppv = RZero
      /\ calculateMetrics(matrix, prevalence).npv = RSub(ROne, prevalence)

\* C12: calculateMetrics returns sensitivity = tp / (tp + fn) when the matrix
\* has a condition-positive case and 0 when it has none, and specificity =
\* tn / (tn + fp) when it has a condition-negative case and 0 when it has
\* none; a value is returned in the degenerate case too.
C12_SensitivitySpecificity ==
  \A i \in 1..Len(allUsers) : \A p \in PrevalenceInputs \cup {prevalence} :
    LET evals == ReaderEvals(i)
        matrix == getMatrixForEvaluations(evals, cases, cutoff)
        m == calculateMetrics(matrix, p)
        positives == CountCases(cases, LAMBDA c : Included(evals, c) /\ c.isCVMIPositive)
        negatives == CountCases(cases, LAMBDA c : Included(evals, c) /\ ~c.isCVMIPositive)
    IN  /\ DOMAIN m = {"sensitivity", "specificity", "ppv", "npv"}
        /\ m.sensitivity[2] > 0 /\ m.specificity[2] > 0
        /\ IF positives > 0
           THEN m.sensitivity[1] * positives = matrix.tp * m.sensitivity[2]
           ELSE m.sensitivity = RZero
        /\ IF negatives > 0
           THEN m.specificity[1] * negatives = matrix.tn * m.specificity[2]
           ELSE m.specificity = RZero

\* the reader has scored only negative cases, one on each side of the
\* cutoff: sensitivity is 0 by convention and specificity is 1/2
C12_Witness ==
  LET matrix == getMatrixForEvaluations(ReaderEvals(1), cases, cutoff)
      m == calculateMetrics(matrix, prevalence)
  IN  /\ matrix = [tp |-> 0, fp |-> 1, tn |-> 1, fn |-> 0]
      /\ \E j \in 1..Len(cases) : cases[j].isCVMIPositive
      /\ m.sensitivity = RZero /\ m.specificity = RHalf

\* C13: for a matrix with fn = 0, fp = 0, tp > 0 and tn > 0, calculateMetrics
\* called with the matrix's own prevalence (tp + fn) / (tp + fp + tn + fn)
\* returns PPV = 1 and NPV = 1.
C13_PerfectMatrixPredictiveValues ==
  \A i \in 1..Len(allUsers) :
    LET matrix == getMatrixForEvaluations(ReaderEvals(i), cases, cutoff)
        total == matrix.tp + matrix.fp + matrix.tn + matrix.fn
    IN  (matrix.fn = 0 /\ matrix.fp = 0 /\ matrix.tp > 0 /\ matrix.tn > 0) =>
          LET m == calculateMetrics(matrix, Rat(matrix.tp + matrix.fn, total))
          IN  /\ m.sensitivity = ROne /\ m.specificity = ROne
              /\ m.ppv = ROne /\ m.npv = ROne

\* two true positives and one true negative, prevalence 2/3
C13_Witness ==
  LET matrix == getMatrixForEvaluations(ReaderEvals(1), cases, cutoff)
      m == calculateMetrics(matrix, <<2, 3>>)
  IN  /\ matrix = [tp |-> 2, fp |-> 0, tn |-> 1, fn |-> 0]
      /\ m.ppv = ROne /\ m.npv = ROne

\* C14: zTestForProportions returns exactly 1.0 whenever total1 = 0 or
\* total2 = 0, or the pooled proportion is exactly 0 or exactly 1 (the only
\* inputs with a zero standard error); the p-values of every reader obey it.
C14_DegenerateProportionsGiveOne ==
  /\ \A total1, total2 \in 0..Len(cases) :
       \A success1 \in 0..total1, success2 \in 0..total2 :
         (\/ total1 = 0 \/ total2 = 0
          \/ success1 + success2 = 0
          \/ success1 + success2 = total1 + total2)
         => zTestForProportions(success1, total1, success2, total2) = DOne
  /\ \A i \in 1..Len(allUsers) :
       LET evals == ReaderEvals(i)
           final == finalMatrixOf(evals, cases, cutoff)
           partial == partialMatrixOf(evals, cases, cutoff, comparisonPercentage)
           P_final == final.tp + final.fn
           N_final == final.tn + final.fp
           P_partial == partial.tp + partial.fn
           N_partial == partial.tn + partial.fp
       IN  /\ (\/ P_partial = 0 \/ P_final = 0
               \/ partial.tp + final.tp = 0
               \/ partial.fn + final.fn = 0)
              => zTestForProportions(partial.tp, P_partial, final.tp, P_final) = DOne
           /\ (\/ N_partial = 0 \/ N_final = 0
               \/ partial.tn + final.tn = 0
               \/ partial.fp + final.fp = 0)
              => zTestForProportions(partial.tn, N_partial, final.tn, N_final) = DOne

\* the first half of a reader's evaluated cases holds no positive case while
\* the whole holds one (total1 = 0), and every negative case is called
\* negative in both subsets (pooled proportion 1)
C14_Witness ==
  LET evals == ReaderEvals(1)
      r == analysisData.resultsByUser[1]
      final == finalMatrixOf(evals, cases, cutoff)
      partial == partialMatrixOf(evals, cases, cutoff, comparisonPercentage)
  IN  /\ partial.tp + partial.fn = 0 /\ final.tp + final.fn = 1
      /\ partial.tn = 2 /\ partial.fp = 0 /\ final.tn = 2 /\ final.fp = 0
      /\ r.pValueSensitivity = DOne /\ r.pValueSpecificity = DOne

IsTTestResult(r) == DOMAIN r = {"t", "df", "p"}

\* C15: tTestIndependent returns null iff a sample has fewer than 2
\* observations, tTestPaired returns null iff the samples differ in length or
\* have fewer than 2 pairs; otherwise a result {t, df, p} is returned.
C15_NullIffTooSmall ==
  LET learning == learningCurveResult
      experience == experienceTestResult
      pairedReaders == pairedTestResult
      pairedGroups == tTestPaired(exp1Times, exp2Times)
  IN  /\ (learning = Null)
           <=> (Len(firstHalfTimes) < 2 \/ Len(secondHalfTimes) < 2)
      /\ learning # Null => IsTTestResult(learning)
      /\ (experience = Null) <=> (Len(exp1Times) < 2 \/ Len(exp2Times) < 2)
      /\ experience # Null => IsTTestResult(experience)
      /\ (pairedReaders = Null)
           <=> (Len(user1PairedTimes) # Len(user2PairedTimes)
                \/ Len(user1PairedTimes) < 2)
      /\ pairedReaders # Null => IsTTestResult(pairedReaders)
      /\ (pairedGroups = Null)
           <=> (Len(exp1Times) # Len(exp2Times) \/ Len(exp1Times) < 2)
      /\ pairedGroups # Null => IsTTestResult(pairedGroups)

\* the experience groups have three and two times (an independent result, no
\* paired test of the two groups), the second part of the learning curve has
\* a single time (no result), and the two readers share two timed cases (a
\* paired result)
C15_Witness ==
  /\ Len(exp1Times) = 3 /\ Len(exp2Times) = 2
  /\ experienceTestResult # Null
  /\ tTestPaired(exp1Times, exp2Times) = Null
  /\ Len(firstHalfTimes) = 2 /\ Len(secondHalfTimes) = 1
  /\ learningCurveResult = Null
  /\ Len(user1PairedTimes) = 2 /\ IsTTestResult(pairedTestResult)

\* the sentinel of a comparison whose standard error is exactly 0
Sentinel(df) == [t |-> DInfinity, df |-> df, p |-> DZero]

\* every observation of the sample has the same value
AllEqual(s) == \A i, j \in 1..Len(s) : s[i] = s[j]

\* C16: when the standard error of a comparison is exactly 0 the t-tests
\* return the sentinel: tTestIndependent returns t = Infinity, p = 0,
\* df = n1 + n2 - 2 when both samples are constant (the pooled standard
\* error is 0), whatever the two means are, also when they are equal, and
\* tTestPaired returns t = Infinity, p = 0, df = n - 1 when the pairwise
\* differences are all the same (their standard deviation is 0).
C16_ZeroStandardErrorSentinel ==
  /\ (/\ Len(exp1Times) >= 2 /\ Len(exp2Times) >= 2
      /\ AllEqual(exp1Times) /\ AllEqual(exp2Times))
       => experienceTestResult = Sentinel(Len(exp1Times) + Len(exp2Times) - 2)
  /\ (/\ Len(firstHalfTimes) >= 2 /\ Len(secondHalfTimes) >= 2
      /\ AllEqual(firstHalfTimes) /\ AllEqual(secondHalfTimes))
       => learningCurveResult = Sentinel(Len(learningCurveTimes) - 2)
  /\ (/\ Len(user1PairedTimes) = Len(user2PairedTimes)
      /\ Len(user1PairedTimes) >= 2
      /\ AllEqual(pairDiffs(user1PairedTimes, user2PairedTimes)))
       => pairedTestResult = Sentinel(Len(user1PairedTimes) - 1)

\* C17: for every sequence s of length >= 2, tTestPaired(s, s) returns an
\* infinite statistic and p = 0: all pairwise differences are 0, so their mean
\* and their sample standard deviation are exactly 0.
C17_PairedWithItself ==
  \A s \in {learningCurveTimes, firstHalfTimes, exp1Times, exp2Times,
             user1PairedTimes, user2PairedTimes} :
    Len(s) >= 2 =>
      /\ \A i \in 1..Len(s) : pairDiffs(s, s)[i] = DZero
      /\ mean(pairDiffs(s, s)) = DZero
      /\ stdDev(pairDiffs(s, s)) = DZero
      /\ tTestPaired(s, s).t = DInfinity
      /\ tTestPaired(s, s).p = DZero

\* the reader's times of the cases -1, 0 and 1 are 0.1 s, 2 s and 1 s: the
\* learning curve has them in ascending case order and the experience group
\* in the order of Object.values (the case -1 last), and the test of each
\* sequence against itself gives the sentinel
C17_Witness ==
  /\ learningCurveTimes = <<DRatio(1, 10), DFromInt(2), DFromInt(1)>>
  /\ stdDev(learningCurveTimes) # DZero
  /\ tTestPaired(learningCurveTimes, learningCurveTimes) = Sentinel(2)
  /\ exp1Times = <<DFromInt(2), DFromInt(1), DRatio(1, 10)>>
  /\ tTestPaired(exp1Times, exp1Times) = Sentinel(2)

\* C18: for every non-empty sequence of numbers, stdDev is non-negative, and
\* it is 0 if and only if all values of the sequence are equal (a
\* single-element sequence gives 0).
C18_StdDevZeroIffConstant ==
  \A s \in {learningCurveTimes, firstHalfTimes, secondHalfTimes, exp1Times,
             exp2Times} :
    Len(s) >= 1 =>
      /\ stdDev(s) = DZero \/ DIsPos(stdDev(s))
      /\ (stdDev(s) = DZero) <=> (\A i, j \in 1..Len(s) : s[i] = s[j])

\* the number of cases of the list with a case number in keys whose test
\* outcome (final score >= cutoff) and reference outcome are the given ones
CasesCounted(userEvals, keys, testPositive, conditionPositive) ==
  Cardinality({i \in 1..Len(cases) :
                 /\ cases[i].caseNumber \in keys
                 /\ (userEvals[cases[i].caseNumber].viradsFinal >= cutoff) = testPositive
                 /\ cases[i].isCVMIPositive = conditionPositive})

\* C19: for each reader with n >= 1 evaluated cases (final score > 0) the
\* partial metrics are computed on exactly the first ceil(n * K / 100)
\* evaluated case numbers in ascending order, K the comparison percentage:
\* the partial keys are a prefix of the evaluated keys, the partial matrix
\* counts the cases of that prefix, and each partial count is at most the
\* final count.
C19_PartialIsPrefix ==
  \A u \in 1..Len(allUsers) :
    LET userEvals == userEvalsOf(allEvaluations, allUsers[u])
        evaluated == {k \in DOMAIN userEvals : userEvals[k].viradsFinal > 0}
        n == Cardinality(evaluated)
        count == CHOOSE c \in 0..n :
                   /\ 100 * c >= n * comparisonPercentage
                   /\ 100 * (c - 1) < n * comparisonPercentage
        first == {k \in evaluated : Cardinality({j \in evaluated : j <= k}) <= count}
        partialKeys == partialKeysOf(userEvals, comparisonPercentage)
        partial == partialMatrixOf(userEvals, cases, cutoff, comparisonPercentage)
        final == finalMatrixOf(userEvals, cases, cutoff)
    IN  n >= 1 =>
          /\ Len(partialKeys) = count
          /\ SeqRange(partialKeys) = first
          /\ \A i \in 1..Len(partialKeys) :
                partialKeys[i] = evaluatedKeysOf(userEvals)[i]
          /\ \A i \in 1..(Len(partialKeys) - 1) : partialKeys[i] < partialKeys[i + 1]
          /\ partial = [tp |-> CasesCounted(userEvals, first, TRUE, TRUE),
                        fp |-> CasesCounted(userEvals, first, TRUE, FALSE),
                        tn |-> CasesCounted(userEvals, first, FALSE, FALSE),
                        fn |-> CasesCounted(userEvals, first, FALSE, TRUE)]
          /\ partial.tp <= final.tp /\ partial.fp <= final.fp
          /\ partial.tn <= final.tn /\ partial.fn <= final.fn

\* the reader has scored cases 1, 2 and 3; half of them, rounded up, are the
\* cases 1 and 2, and the partial matrix has one count less than the final one
C19_Witness ==
  LET userEvals == userEvalsOf(allEvaluations, allUsers[1])
      partial == partialMatrixOf(userEvals, cases, cutoff, comparisonPercentage)
      final == finalMatrixOf(userEvals, cases, cutoff)
  IN  /\ Len(cases) = 3 /\ comparisonPercentage = 50
      /\ evaluatedKeysOf(userEvals) = <<1, 2, 3>>
      /\ partialKeysOf(userEvals, comparisonPercentage) = <<1, 2>>
      /\ partial.tp + partial.fp + partial.tn + partial.fn = 2
      /\ final.tp + final.fp + final.tn + final.fn = 3

\* the readers (positions in allUsers) with at least one evaluated case
ReadersWithData ==
  {u \in 1..Len(allUsers) :
     \E k \in DOMAIN userEvalsOf(allEvaluations, allUsers[u]) :
       userEvalsOf(allEvaluations, allUsers[u])[k].viradsFinal > 0}

\* the final metrics of reader u
FinalMetricsOf(u) ==
  calculateMetrics(finalMatrixOf(userEvalsOf(allEvaluations, allUsers[u]),
                                 cases, cutoff),
                   prevalence)

\* the sum of one final metric over the readers of S
RECURSIVE MetricTotal(_, _)
MetricTotal(S, field) ==
  IF S = {} THEN RZero
  ELSE LET u == CHOOSE x \in S : TRUE
       IN  RAdd(FinalMetricsOf(u)[field], MetricTotal(S \ {u}, field))

\* C20: each group average (sensitivity, specificity, PPV, NPV) is the
\* arithmetic mean of that final metric over exactly the readers who have at
\* least one evaluated case; when no reader has one, every average is 0.
C20_GroupAverages ==
  LET averageMetrics == analysisData.averageMetrics
  IN  \A field \in {"sensitivity", "specificity", "ppv", "npv"} :
        IF ReadersWithData = {} THEN averageMetrics[field] = RZero
        ELSE averageMetrics[field] =
               RDiv(MetricTotal(ReadersWithData, field),
                    Rat(Cardinality(ReadersWithData), 1))

\* both readers have evaluated cases and different sensitivities (0 and 1);
\* the group sensitivity is 1/2
C20_Witness ==
  /\ ReadersWithData = {1, 2}
  /\ FinalMetricsOf(1).sensitivity = RZero
  /\ FinalMetricsOf(2).sensitivity = ROne
  /\ analysisData.averageMetrics.sensitivity = RHalf

\* the logGamma calls of the p-value of a test result stay out of the
\* reflection branch and away from the poles: every argument is at least 0.5
LogGammaCallsRegular(r) ==
  r # Null /\ r.p # DZero =>
    /\ r.df >= 1
    /\ r.p.a = DRatio(r.df, 2) /\ r.p.b = DRatio(1, 2)
    /\ \A i \in 1..Len(logGammaArgs(r.p)) :
         LET x == logGammaArgs(r.p)[i]
         IN  /\ ~logGammaReflects(x)
             /\ x.kind = "finite" /\ ~x.neg /\ x.m # <<>>

\* C22: every argument the t-tests pass to logGamma (through betinc with
\* a = df/2, b = 1/2, and a + b) is at least 0.5, so it is no non-positive
\* integer and the reflection branch of logGamma (x < 0.5) is never taken,
\* for the independent tests (df = n1 + n2 - 2 >= 2) and the paired tests
\* (df = n - 1 >= 1) of the time analysis.
C22_LogGammaArguments ==
  LET learning == learningCurveResult
      experience == experienceTestResult
      pairedReaders == pairedTestResult
  IN  /\ LogGammaCallsRegular(learning)
      /\ LogGammaCallsRegular(experience)
      /\ LogGammaCallsRegular(pairedReaders)
      /\ learning # Null => learning.df >= 2
      /\ experience # Null => experience.df >= 2

\* a paired test with one degree of freedom and an independent test with
\* three both compute a p-value through logGamma
C22_Witness ==
  /\ pairedTestResult # Null /\ pairedTestResult.df = 1
  /\ pairedTestResult.p # DZero
  /\ logGammaArgs(pairedTestResult.p) =
       <<DFromInt(1), DRatio(1, 2), DRatio(1, 2)>>
  /\ experienceTestResult # Null /\ experienceTestResult.df = 3
  /\ experienceTestResult.p # DZero
  /\ logGammaArgs(experienceTestResult.p) =
       <<DFromInt(2), DRatio(3, 2), DRatio(1, 2)>>

\* a timeout of reader.onload fires: handleDataUpload(Head(pendingUploads))
DataUploadStep ==
  pendingUploads # <<>> /\ pendingUploads' = Tail(pendingUploads) /\ isLoaded'

\* C23: when new case data is uploaded, the case list becomes the uploaded
\* cases, the evaluations and the survey responses of all users become
\* empty and the view becomes 'evaluation'; the user list and the current
\* user are left as they were.
C23_DataUpload ==
  [][DataUploadStep =>
       /\ cases' = Head(pendingUploads)
       /\ allEvaluations' = [u \in {} |-> NoEvaluations]
       /\ allSurveyResponses' = [u \in {} |-> Null]
       /\ view' = "evaluation"
       /\ allUsers' = allUsers
       /\ currentUser' = currentUser]_vars

\* the two-case sheet has been uploaded by a logged-in reader
C23_Witness ==
  /\ Len(cases) = 2 /\ cases[1].caseNumber = 1 /\ cases[1].isCVMIPositive
  /\ cases = parsedCases(<<[caseNumber |-> NumberCell(2),
                             AP |-> TextCell(charCodes("T1"))],
                           [caseNumber |-> NumberCell(1),
                             AP |-> TextCell(charCodes("T3"))]>>)
  /\ allEvaluations = [u \in {} |-> NoEvaluations]
  /\ allSurveyResponses = [u \in {} |-> Null]
  /\ view = "evaluation"
  /\ currentUser # Null
  /\ Len(allUsers) > 0
  /\ evaluationScreen # Null

\* the evaluation screen moves to the next case
NextCaseStep ==
  /\ evaluationScreen # Null
  /\ evaluationScreen' # Null
  /\ evaluationScreen'.currentIndex = evaluationScreen.currentIndex + 1

\* C24: the reader advances to the next case only when the timer is
\* stopped, the saved reading time plus the time of the session is above 0,
\* the nine ratings of the current case are above 0 and the current case is
\* not the last one.
C24_NextOnlyWhenReady ==
  [][NextCaseStep =>
       /\ ~evaluationScreen.timerIsActive
       /\ DIsPos(DAdd(evaluationScreen.currentEval.readingTime,
                      DFromInt(evaluationScreen.sessionTime)))
       /\ \A f \in {"imageQuality", "t2", "difusion", "edc", "viradsFinal",
                    "t2Confidence", "difusionConfidence", "edcConfidence",
                    "viradsFinalConfidence"} :
            evaluationScreen.currentEval[f] > 0
       /\ evaluationScreen.currentIndex + 1 < Len(cases)]_vars

\* the reader has advanced to the second case, whose evaluation is not
\* complete, from a first case with every rating and a reading time
C24_Witness ==
  /\ evaluationScreen # Null
  /\ evaluationScreen.currentIndex = 1
  /\ ~isEvaluationComplete(evaluationScreen.currentEval)
  /\ "r1" \in DOMAIN allEvaluations
  /\ 1 \in DOMAIN allEvaluations["r1"]
  /\ isEvaluationComplete(allEvaluations["r1"][1])
  /\ allEvaluations["r1"][1].readingTime = DFromInt(MaxSeconds)

\* a handler other than an upload, a reset or the load changes the stored
\* evaluations
EvaluationUpdateStep ==
  /\ isLoaded /\ isLoaded'
  /\ allEvaluations' # allEvaluations
  /\ ~DataUploadStep
  /\ ~(allUsers # <<>> /\ allUsers' = <<>>)

\* C25: handleEvaluationUpdate changes only the entry of the current user
\* for the case number passed (the case shown): the evaluations of every
\* other user and of the current user's other cases stay as they were, and
\* without a current user nothing changes.
C25_UpdateFrame ==
  /\ [](\A c \in 1..MaxCaseNumberA :
          handleEvaluationUpdate(allEvaluations, Null, c, ScoredEval(MaxScore))
            = allEvaluations)
  /\ [][EvaluationUpdateStep =>
          /\ currentUser # Null
          /\ evaluationScreen # Null
          /\ DOMAIN allEvaluations' = DOMAIN allEvaluations \cup {currentUser.id}
          /\ \A u \in DOMAIN allEvaluations :
               u # currentUser.id => allEvaluations'[u] = allEvaluations[u]
          /\ LET before == userEvalsOf(allEvaluations, currentUser)
                 after == allEvaluations'[currentUser.id]
                 caseNumber == cases[evaluationScreen.currentIndex + 1].caseNumber
             IN  /\ DOMAIN after = DOMAIN before \cup {caseNumber}
                 /\ \A k \in DOMAIN before :
                      k # caseNumber => after[k] = before[k]]_vars

\* the second reader has scored the first case and the first reader has
\* changed the score of the first case; the other evaluation of the first
\* reader is the saved one
C25_Witness ==
  /\ DOMAIN allEvaluations = {"r1", "r2"}
  /\ DOMAIN allEvaluations["r1"] = {1, 2}
  /\ allEvaluations["r1"][1].viradsFinal = MaxScore
  /\ allEvaluations["r1"][2] = ScoredEval(MaxScore)
  /\ DOMAIN allEvaluations["r2"] = {1}
  /\ allEvaluations["r2"][1].viradsFinal = MaxScore

\* a rating of the case shown is entered or changed while the timer runs
RatingChangeStep ==
  /\ evaluationScreen # Null
  /\ evaluationScreen' # Null
  /\ evaluationScreen.timerIsActive
  /\ evaluationScreen'.currentIndex = evaluationScreen.currentIndex
  /\ currentUser' = currentUser
  /\ \E f \in RatingFields :
       evaluationScreen'.currentEval[f] # evaluationScreen.currentEval[f]

\* C26: entering or changing a rating while the timer is running neither
\* stops the timer nor discards the seconds elapsed in the running
\* session, so that the reading time saved is the sum of the seconds of
\* the timer sessions.
C26_RatingKeepsTimer ==
  [][RatingChangeStep =>
       /\ evaluationScreen'.timerIsActive
       /\ evaluationScreen'.sessionTime = evaluationScreen.sessionTime
       /\ evaluationScreen'.currentEval.readingTime =
            evaluationScreen.currentEval.readingTime]_vars

\* C27: once an upload has moved the application to the evaluation view, a
\* timeout of handleFile that is still pending neither replaces the case
\* list nor clears the evaluations a reader has stored.
C27_NoLateUpload ==
  [][(/\ DataUploadStep
      /\ view = "evaluation"
      /\ \E u \in DOMAIN allEvaluations : DOMAIN allEvaluations[u] # {})
       => cases' = cases /\ allEvaluations' = allEvaluations]_vars

\* a step that leaves App loaded with other users, cases, evaluations or
\* surveys than before
SessionChangeStep == isLoaded /\ isLoaded' /\ stateToSave' # stateToSave

\* nothing is written to local storage before the load of the saved
\* session has finished (an item that cannot be parsed is removed)
NoSaveBeforeLoad ==
  [][~isLoaded =>
       /\ \/ localStorage' = localStorage
          \/ localStorage = Corrupt /\ localStorage' = Null
       /\ ~saveFailed']_vars

FinishStep ==
  /\ isLoaded /\ isLoaded'
  /\ currentUser # Null
  /\ view = "evaluation"
  /\ view' \in {"survey", "analysis"}
  /\ currentUser' = currentUser

\* C29: a reader who finishes the evaluations is sent to the survey unless
\* a complete survey of that reader (eight scale answers above 0) is
\* stored; a survey filled in partly does not make the survey be skipped,
\* also after a reload and a new login.
C29_SurveyUnlessComplete ==
  [][FinishStep =>
       (view' = "analysis" =>
          /\ currentUser.id \in DOMAIN allSurveyResponses
          /\ \A q \in ScaleQuestions :
               allSurveyResponses[currentUser.id][q] > 0)]_vars

\* the update effect of SurveyScreen has run in the step: onUpdate was
\* called once more
SurveyEffectStep ==
  /\ surveyScreen # Null
  /\ surveyScreen' # Null
  /\ surveyScreen'.onUpdateCalls = surveyScreen.onUpdateCalls + 1

\* the step has left App and its screens as they were, but for the number
\* of the calls of onUpdate
SameStateStep ==
  /\ appVars' = appVars
  /\ analysisVars' = analysisVars
  /\ evaluationScreen' = evaluationScreen
  /\ uploadScreen' = uploadScreen
  /\ fileReaders' = fileReaders
  /\ pendingUploads' = pendingUploads
  /\ surveyScreen'.surveyData = surveyScreen.surveyData

\* C30: after a change of a survey answer the update effect of SurveyScreen
\* and the state update of App stop triggering each other, so that onUpdate
\* is called a bounded number of times: no run of the effect leaves the
\* application in the state it ran in with the effect due again (from such
\* a state the effect runs again, and so on forever).
C30_Quiescence ==
  [][SurveyEffectStep /\ SameStateStep => ~surveyScreen'.effectPending]_vars

====
